---- MODULE Spec2Model ----
(***************************************************************************)
(* GraminStore backend: the per-merchant transaction ledger                *)
(* (backend/app/models/transaction.py), its registry of table handles      *)
(* (metadata.tables), guest-identity provisioning and the read/analytics   *)
(* functions, together with the handlers that call them.                   *)
(*                                                                         *)
(* Decimal amounts are integers in thousandths of a currency unit, so that *)
(* the NUMERIC(10,2) column's rounding to two decimals is a real           *)
(* conversion; a Python float is the double it is, written relative to the *)
(* nearest number of thousandths.                                          *)
(* Time is an integer number of ticks; DayTicks ticks make one day.        *)
(***************************************************************************)
EXTENDS Integers, Sequences, FiniteSets, TLC

VARIABLES
    store,        \* the database: table name -> sequence of ledger rows
    guest_users,  \* the guest_users table: sequence of merchant ids, index = id
    registry,     \* per process: metadata.tables, table name -> Table handle
    nextHandle,   \* per process: identity of the next Table object constructed
    now,          \* the UTC clock (datetime.utcnow()), in ticks
    tz,           \* offset of the server's local time from UTC, in ticks
    ret,          \* the outcome of the last completed call
    pc,           \* per process: position inside a call that is run stepwise
    loc,          \* per process: the locals of the call that is run stepwise
    orders,       \* the orders table with each Order's OrderItem rows, index = id
    merchant_connections,  \* ConnectionManager: merchant id -> list of websockets
    user_connections,      \* ConnectionManager: user id -> list of websockets
    inbox,        \* websocket -> the messages its client has received, in order
    closed,       \* websockets whose client has gone away: a send raises
    tasks,        \* request -> the state of a checkout that is run stepwise
    sessions,     \* websocket -> the id and user_type its handler serves
    subscriptions, \* push_service.subscriptions: the merchants subscribed to push
    http,         \* the last HTTP response a handler gave
    users,        \* the users table: the ids of its rows
    inventory_items,         \* the inventory_items table, index = id
    purchase_list_items,     \* the purchase_list_items table, index = id
    inventory_transactions,  \* the inventory_transactions table, index = id
    response      \* the answer of the last inventory request

\* the marketplace state: orders and the notification fan-out
market == <<orders, merchant_connections, user_connections, inbox, closed, tasks,
            sessions, subscriptions>>

\* the tables of the accounts and of the inventory
tables == <<users, inventory_items, purchase_list_items, inventory_transactions, response>>

vars == <<store, guest_users, registry, nextHandle, now, tz, ret, pc, loc, market, http,
          tables>>

----------------------------------------------------------------------------
(* Bounds of the model *)

MaxRows == 2      \* ledger rows in the whole store
MaxTime == 3      \* the clock runs from 1 and stops advancing here
DayTicks == 1     \* ticks in one day
MaxCheckoutRows == 3  \* ledger rows that interleaved checkouts write
MaxGuestIds == 1  \* ids of guest_users that the route create_guest_user uses up
MaxMessages == 1  \* messages a websocket has received when its client sends one more

(* Values *)

None == 0         \* Python None / SQL NULL in an integer column (ids start at 1)
NullText == "NULL"  \* SQL NULL in a text column

Procs == {"A", "B"}       \* server processes sharing the one database
Merchants == {1, 12}      \* ids of the rows of the merchants table
Users == {1, 2}           \* ids of the rows of the users table
TzOffsets == {0, 1}       \* local-time offsets a deployment may run under

PAYED == "PAYED"
PAY_LATER == "PAY_LATER"
TransactionType == {PAYED, PAY_LATER}

----------------------------------------------------------------------------
(* Table names: f"transaction_{merchant_id}" and int(name.replace(...)).    *)
(* A name is a sequence of tokens: the token Stem stands for the eleven      *)
(* letters "transaction", every other token is one character.  A character   *)
(* outside printable ASCII is written by its code point, "U+0665" for        *)
(* ARABIC-INDIC DIGIT FIVE, or by its escape: "\t", "\n", "\f", "\r".         *)

Stem == "transaction"
Prefix == <<Stem, "_">>
DigitChar == <<"0", "1", "2", "3", "4", "5", "6", "7", "8", "9">>

\* str(n): the decimal digits, no padding, "-" before a negative number
RECURSIVE FormatInt(_)
FormatInt(n) ==
    IF n < 0 THEN <<"-">> \o FormatInt(0 - n)
    ELSE IF n < 10 THEN <<DigitChar[n + 1]>>
    ELSE FormatInt(n \div 10) \o <<DigitChar[(n % 10) + 1]>>

\* the decimal digits int() reads (the characters of Unicode category Nd):
\* every script's digits 0 to 9, in this order
DecimalDigits ==
    {<<"0", "1", "2", "3", "4", "5", "6", "7", "8", "9">>,
     <<"U+0660", "U+0661", "U+0662", "U+0663", "U+0664",
       "U+0665", "U+0666", "U+0667", "U+0668", "U+0669">>,
     <<"U+06F0", "U+06F1", "U+06F2", "U+06F3", "U+06F4",
       "U+06F5", "U+06F6", "U+06F7", "U+06F8", "U+06F9">>,
     <<"U+07C0", "U+07C1", "U+07C2", "U+07C3", "U+07C4",
       "U+07C5", "U+07C6", "U+07C7", "U+07C8", "U+07C9">>,
     <<"U+0966", "U+0967", "U+0968", "U+0969", "U+096A",
       "U+096B", "U+096C", "U+096D", "U+096E", "U+096F">>,
     <<"U+09E6", "U+09E7", "U+09E8", "U+09E9", "U+09EA",
       "U+09EB", "U+09EC", "U+09ED", "U+09EE", "U+09EF">>,
     <<"U+0A66", "U+0A67", "U+0A68", "U+0A69", "U+0A6A",
       "U+0A6B", "U+0A6C", "U+0A6D", "U+0A6E", "U+0A6F">>,
     <<"U+0AE6", "U+0AE7", "U+0AE8", "U+0AE9", "U+0AEA",
       "U+0AEB", "U+0AEC", "U+0AED", "U+0AEE", "U+0AEF">>,
     <<"U+0B66", "U+0B67", "U+0B68", "U+0B69", "U+0B6A",
       "U+0B6B", "U+0B6C", "U+0B6D", "U+0B6E", "U+0B6F">>,
     <<"U+0BE6", "U+0BE7", "U+0BE8", "U+0BE9", "U+0BEA",
       "U+0BEB", "U+0BEC", "U+0BED", "U+0BEE", "U+0BEF">>,
     <<"U+0C66", "U+0C67", "U+0C68", "U+0C69", "U+0C6A",
       "U+0C6B", "U+0C6C", "U+0C6D", "U+0C6E", "U+0C6F">>,
     <<"U+0CE6", "U+0CE7", "U+0CE8", "U+0CE9", "U+0CEA",
       "U+0CEB", "U+0CEC", "U+0CED", "U+0CEE", "U+0CEF">>,
     <<"U+0D66", "U+0D67", "U+0D68", "U+0D69", "U+0D6A",
       "U+0D6B", "U+0D6C", "U+0D6D", "U+0D6E", "U+0D6F">>,
     <<"U+0DE6", "U+0DE7", "U+0DE8", "U+0DE9", "U+0DEA",
       "U+0DEB", "U+0DEC", "U+0DED", "U+0DEE", "U+0DEF">>,
     <<"U+0E50", "U+0E51", "U+0E52", "U+0E53", "U+0E54",
       "U+0E55", "U+0E56", "U+0E57", "U+0E58", "U+0E59">>,
     <<"U+0ED0", "U+0ED1", "U+0ED2", "U+0ED3", "U+0ED4",
       "U+0ED5", "U+0ED6", "U+0ED7", "U+0ED8", "U+0ED9">>,
     <<"U+0F20", "U+0F21", "U+0F22", "U+0F23", "U+0F24",
       "U+0F25", "U+0F26", "U+0F27", "U+0F28", "U+0F29">>,
     <<"U+1040", "U+1041", "U+1042", "U+1043", "U+1044",
       "U+1045", "U+1046", "U+1047", "U+1048", "U+1049">>,
     <<"U+1090", "U+1091", "U+1092", "U+1093", "U+1094",
       "U+1095", "U+1096", "U+1097", "U+1098", "U+1099">>,
     <<"U+17E0", "U+17E1", "U+17E2", "U+17E3", "U+17E4",
       "U+17E5", "U+17E6", "U+17E7", "U+17E8", "U+17E9">>,
     <<"U+1810", "U+1811", "U+1812", "U+1813", "U+1814",
       "U+1815", "U+1816", "U+1817", "U+1818", "U+1819">>,
     <<"U+1946", "U+1947", "U+1948", "U+1949", "U+194A",
       "U+194B", "U+194C", "U+194D", "U+194E", "U+194F">>,
     <<"U+19D0", "U+19D1", "U+19D2", "U+19D3", "U+19D4",
       "U+19D5", "U+19D6", "U+19D7", "U+19D8", "U+19D9">>,
     <<"U+1A80", "U+1A81", "U+1A82", "U+1A83", "U+1A84",
       "U+1A85", "U+1A86", "U+1A87", "U+1A88", "U+1A89">>,
     <<"U+1A90", "U+1A91", "U+1A92", "U+1A93", "U+1A94",
       "U+1A95", "U+1A96", "U+1A97", "U+1A98", "U+1A99">>,
     <<"U+1B50", "U+1B51", "U+1B52", "U+1B53", "U+1B54",
       "U+1B55", "U+1B56", "U+1B57", "U+1B58", "U+1B59">>,
     <<"U+1BB0", "U+1BB1", "U+1BB2", "U+1BB3", "U+1BB4",
       "U+1BB5", "U+1BB6", "U+1BB7", "U+1BB8", "U+1BB9">>,
     <<"U+1C40", "U+1C41", "U+1C42", "U+1C43", "U+1C44",
       "U+1C45", "U+1C46", "U+1C47", "U+1C48", "U+1C49">>,
     <<"U+1C50", "U+1C51", "U+1C52", "U+1C53", "U+1C54",
       "U+1C55", "U+1C56", "U+1C57", "U+1C58", "U+1C59">>,
     <<"U+A620", "U+A621", "U+A622", "U+A623", "U+A624",
       "U+A625", "U+A626", "U+A627", "U+A628", "U+A629">>,
     <<"U+A8D0", "U+A8D1", "U+A8D2", "U+A8D3", "U+A8D4",
       "U+A8D5", "U+A8D6", "U+A8D7", "U+A8D8", "U+A8D9">>,
     <<"U+A900", "U+A901", "U+A902", "U+A903", "U+A904",
       "U+A905", "U+A906", "U+A907", "U+A908", "U+A909">>,
     <<"U+A9D0", "U+A9D1", "U+A9D2", "U+A9D3", "U+A9D4",
       "U+A9D5", "U+A9D6", "U+A9D7", "U+A9D8", "U+A9D9">>,
     <<"U+A9F0", "U+A9F1", "U+A9F2", "U+A9F3", "U+A9F4",
       "U+A9F5", "U+A9F6", "U+A9F7", "U+A9F8", "U+A9F9">>,
     <<"U+AA50", "U+AA51", "U+AA52", "U+AA53", "U+AA54",
       "U+AA55", "U+AA56", "U+AA57", "U+AA58", "U+AA59">>,
     <<"U+ABF0", "U+ABF1", "U+ABF2", "U+ABF3", "U+ABF4",
       "U+ABF5", "U+ABF6", "U+ABF7", "U+ABF8", "U+ABF9">>,
     <<"U+FF10", "U+FF11", "U+FF12", "U+FF13", "U+FF14",
       "U+FF15", "U+FF16", "U+FF17", "U+FF18", "U+FF19">>,
     <<"U+104A0", "U+104A1", "U+104A2", "U+104A3", "U+104A4",
       "U+104A5", "U+104A6", "U+104A7", "U+104A8", "U+104A9">>,
     <<"U+10D30", "U+10D31", "U+10D32", "U+10D33", "U+10D34",
       "U+10D35", "U+10D36", "U+10D37", "U+10D38", "U+10D39">>,
     <<"U+11066", "U+11067", "U+11068", "U+11069", "U+1106A",
       "U+1106B", "U+1106C", "U+1106D", "U+1106E", "U+1106F">>,
     <<"U+110F0", "U+110F1", "U+110F2", "U+110F3", "U+110F4",
       "U+110F5", "U+110F6", "U+110F7", "U+110F8", "U+110F9">>,
     <<"U+11136", "U+11137", "U+11138", "U+11139", "U+1113A",
       "U+1113B", "U+1113C", "U+1113D", "U+1113E", "U+1113F">>,
     <<"U+111D0", "U+111D1", "U+111D2", "U+111D3", "U+111D4",
       "U+111D5", "U+111D6", "U+111D7", "U+111D8", "U+111D9">>,
     <<"U+112F0", "U+112F1", "U+112F2", "U+112F3", "U+112F4",
       "U+112F5", "U+112F6", "U+112F7", "U+112F8", "U+112F9">>,
     <<"U+11450", "U+11451", "U+11452", "U+11453", "U+11454",
       "U+11455", "U+11456", "U+11457", "U+11458", "U+11459">>,
     <<"U+114D0", "U+114D1", "U+114D2", "U+114D3", "U+114D4",
       "U+114D5", "U+114D6", "U+114D7", "U+114D8", "U+114D9">>,
     <<"U+11650", "U+11651", "U+11652", "U+11653", "U+11654",
       "U+11655", "U+11656", "U+11657", "U+11658", "U+11659">>,
     <<"U+116C0", "U+116C1", "U+116C2", "U+116C3", "U+116C4",
       "U+116C5", "U+116C6", "U+116C7", "U+116C8", "U+116C9">>,
     <<"U+11730", "U+11731", "U+11732", "U+11733", "U+11734",
       "U+11735", "U+11736", "U+11737", "U+11738", "U+11739">>,
     <<"U+118E0", "U+118E1", "U+118E2", "U+118E3", "U+118E4",
       "U+118E5", "U+118E6", "U+118E7", "U+118E8", "U+118E9">>,
     <<"U+11950", "U+11951", "U+11952", "U+11953", "U+11954",
       "U+11955", "U+11956", "U+11957", "U+11958", "U+11959">>,
     <<"U+11C50", "U+11C51", "U+11C52", "U+11C53", "U+11C54",
       "U+11C55", "U+11C56", "U+11C57", "U+11C58", "U+11C59">>,
     <<"U+11D50", "U+11D51", "U+11D52", "U+11D53", "U+11D54",
       "U+11D55", "U+11D56", "U+11D57", "U+11D58", "U+11D59">>,
     <<"U+11DA0", "U+11DA1", "U+11DA2", "U+11DA3", "U+11DA4",
       "U+11DA5", "U+11DA6", "U+11DA7", "U+11DA8", "U+11DA9">>,
     <<"U+16A60", "U+16A61", "U+16A62", "U+16A63", "U+16A64",
       "U+16A65", "U+16A66", "U+16A67", "U+16A68", "U+16A69">>,
     <<"U+16AC0", "U+16AC1", "U+16AC2", "U+16AC3", "U+16AC4",
       "U+16AC5", "U+16AC6", "U+16AC7", "U+16AC8", "U+16AC9">>,
     <<"U+16B50", "U+16B51", "U+16B52", "U+16B53", "U+16B54",
       "U+16B55", "U+16B56", "U+16B57", "U+16B58", "U+16B59">>,
     <<"U+1D7CE", "U+1D7CF", "U+1D7D0", "U+1D7D1", "U+1D7D2",
       "U+1D7D3", "U+1D7D4", "U+1D7D5", "U+1D7D6", "U+1D7D7">>,
     <<"U+1D7D8", "U+1D7D9", "U+1D7DA", "U+1D7DB", "U+1D7DC",
       "U+1D7DD", "U+1D7DE", "U+1D7DF", "U+1D7E0", "U+1D7E1">>,
     <<"U+1D7E2", "U+1D7E3", "U+1D7E4", "U+1D7E5", "U+1D7E6",
       "U+1D7E7", "U+1D7E8", "U+1D7E9", "U+1D7EA", "U+1D7EB">>,
     <<"U+1D7EC", "U+1D7ED", "U+1D7EE", "U+1D7EF", "U+1D7F0",
       "U+1D7F1", "U+1D7F2", "U+1D7F3", "U+1D7F4", "U+1D7F5">>,
     <<"U+1D7F6", "U+1D7F7", "U+1D7F8", "U+1D7F9", "U+1D7FA",
       "U+1D7FB", "U+1D7FC", "U+1D7FD", "U+1D7FE", "U+1D7FF">>,
     <<"U+1E140", "U+1E141", "U+1E142", "U+1E143", "U+1E144",
       "U+1E145", "U+1E146", "U+1E147", "U+1E148", "U+1E149">>,
     <<"U+1E2F0", "U+1E2F1", "U+1E2F2", "U+1E2F3", "U+1E2F4",
       "U+1E2F5", "U+1E2F6", "U+1E2F7", "U+1E2F8", "U+1E2F9">>,
     <<"U+1E950", "U+1E951", "U+1E952", "U+1E953", "U+1E954",
       "U+1E955", "U+1E956", "U+1E957", "U+1E958", "U+1E959">>,
     <<"U+1FBF0", "U+1FBF1", "U+1FBF2", "U+1FBF3", "U+1FBF4",
       "U+1FBF5", "U+1FBF6", "U+1FBF7", "U+1FBF8", "U+1FBF9">>}

\* the characters that stand for the digit d - 1
DigitsOf == [d \in 1..10 |-> {run[d] : run \in DecimalDigits}]

AllDigits == UNION {DigitsOf[d] : d \in 1..10}

IsDigit(c) == c \in AllDigits
DigitVal(c) == (CHOOSE d \in 1..10 : c \in DigitsOf[d]) - 1

\* the characters int() strips from both ends: those of str.isspace but the
\* four separators U+001C to U+001F
Whitespace == {"\t", "\n", "U+000B", "\f", "\r", " ", "U+0085", "U+00A0", "U+1680",
     "U+2000", "U+2001", "U+2002", "U+2003", "U+2004", "U+2005", "U+2006", "U+2007",
     "U+2008", "U+2009", "U+200A", "U+2028", "U+2029", "U+202F", "U+205F", "U+3000"}

RECURSIVE StripLeft(_)
StripLeft(s) == IF s # <<>> /\ Head(s) \in Whitespace THEN StripLeft(Tail(s)) ELSE s

RECURSIVE StripRight(_)
StripRight(s) ==
    IF s # <<>> /\ s[Len(s)] \in Whitespace THEN StripRight(SubSeq(s, 1, Len(s) - 1)) ELSE s

\* the literal without its sign
Unsigned(s) == IF s # <<>> /\ Head(s) \in {"+", "-"} THEN Tail(s) ELSE s

\* digits, with single underscores between digits
DigitsWithUnderscores(s) ==
    /\ s # <<>>
    /\ IsDigit(s[1]) /\ IsDigit(s[Len(s)])
    /\ \A i \in 1..Len(s) : IsDigit(s[i]) \/ s[i] = "_"
    /\ \A i \in 1..(Len(s) - 1) : ~(s[i] = "_" /\ s[i + 1] = "_")

\* int(s) for a str: blanks around the literal, an optional sign, then the
\* digits; ValueError otherwise
ParsesAsInt(s) == DigitsWithUnderscores(Unsigned(StripRight(StripLeft(s))))

RECURSIVE DigitsValue(_)
DigitsValue(s) ==
    IF s = <<>> THEN 0
    ELSE IF s[Len(s)] = "_" THEN DigitsValue(SubSeq(s, 1, Len(s) - 1))
    ELSE DigitsValue(SubSeq(s, 1, Len(s) - 1)) * 10 + DigitVal(s[Len(s)])

ParseInt(s) ==
    LET literal == StripRight(StripLeft(s)) IN
    IF Head(literal) = "-" THEN 0 - DigitsValue(Unsigned(literal))
    ELSE DigitsValue(Unsigned(literal))

TableName(merchant_id) == Prefix \o FormatInt(merchant_id)

\* tablename LIKE 'transaction_%': "_" stands for any one character and "%"
\* for any characters (the schema is the one schema of the model)
MatchesPattern(name) == Len(name) >= 2 /\ name[1] = Stem

\* table_name.replace('transaction_', ''): every occurrence is taken out
RECURSIVE StripPrefix(_)
StripPrefix(name) ==
    IF name = <<>> THEN <<>>
    ELSE IF Len(name) >= 2 /\ name[1] = Stem /\ name[2] = "_"
    THEN StripPrefix(SubSeq(name, 3, Len(name)))
    ELSE <<Head(name)>> \o StripPrefix(Tail(name))

----------------------------------------------------------------------------
(* Python floats: IEEE 754 doubles.  Natural numbers of any size are        *)
(* sequences of limbs in base 2^15, lowest limb first; a double is m * 2^e   *)
(* with m of 53 bits.                                                        *)

Base == 2^15

RECURSIVE Trim(_)
Trim(a) == IF a # <<>> /\ a[Len(a)] = 0 THEN Trim(SubSeq(a, 1, Len(a) - 1)) ELSE a

RECURSIVE Limbs(_)
Limbs(n) == IF n = 0 THEN <<>> ELSE <<n % Base>> \o Limbs(n \div Base)

RECURSIVE IntOf(_)
IntOf(a) == IF a = <<>> THEN 0 ELSE Head(a) + Base * IntOf(Tail(a))

Limb(a, i) == IF i <= Len(a) THEN a[i] ELSE 0

RECURSIVE AddCarry(_, _, _)
AddCarry(a, b, carry) ==
    IF a = <<>> /\ b = <<>> THEN (IF carry = 0 THEN <<>> ELSE <<carry>>)
    ELSE LET s == Limb(a, 1) + Limb(b, 1) + carry IN
         <<s % Base>> \o AddCarry(IF a = <<>> THEN a ELSE Tail(a),
                                  IF b = <<>> THEN b ELSE Tail(b), s \div Base)

AddN(a, b) == Trim(AddCarry(a, b, 0))

\* a - b for a >= b
RECURSIVE SubBorrow(_, _, _)
SubBorrow(a, b, borrow) ==
    IF a = <<>> THEN <<>>
    ELSE LET d == Head(a) - Limb(b, 1) - borrow IN
         <<IF d < 0 THEN d + Base ELSE d>>
            \o SubBorrow(Tail(a), IF b = <<>> THEN b ELSE Tail(b), IF d < 0 THEN 1 ELSE 0)

SubN(a, b) == Trim(SubBorrow(a, b, 0))

\* a * n for n < Base
RECURSIVE MulCarry(_, _, _)
MulCarry(a, n, carry) ==
    IF a = <<>> THEN (IF carry = 0 THEN <<>> ELSE <<carry>>)
    ELSE LET p == Head(a) * n + carry IN <<p % Base>> \o MulCarry(Tail(a), n, p \div Base)

MulSmall(a, n) == Trim(MulCarry(a, n, 0))

\* quotient and remainder of a by d < Base, from the highest limb down
RECURSIVE DivSmall(_, _)
DivSmall(a, d) ==
    IF a = <<>> THEN [q |-> <<>>, r |-> 0]
    ELSE LET high == DivSmall(Tail(a), d)
             n == high.r * Base + Head(a)
         IN [q |-> Trim(<<n \div d>> \o high.q), r |-> n % d]

\* -1, 0 or 1 as a is below, equal to or above b
RECURSIVE CmpN(_, _)
CmpN(a, b) ==
    IF Len(a) # Len(b) THEN (IF Len(a) < Len(b) THEN 0 - 1 ELSE 1)
    ELSE IF a = <<>> THEN 0
    ELSE IF a[Len(a)] # b[Len(b)] THEN (IF a[Len(a)] < b[Len(b)] THEN 0 - 1 ELSE 1)
    ELSE CmpN(Trim(SubSeq(a, 1, Len(a) - 1)), Trim(SubSeq(b, 1, Len(b) - 1)))

RECURSIVE BitsOf(_)
BitsOf(n) == IF n = 0 THEN 0 ELSE 1 + BitsOf(n \div 2)

BitLen(a) == IF a = <<>> THEN 0 ELSE 15 * (Len(a) - 1) + BitsOf(a[Len(a)])

\* a * 2^s
ShiftLeft(a, s) ==
    IF a = <<>> THEN <<>>
    ELSE [i \in 1..(s \div 15) |-> 0] \o MulSmall(a, 2 ^ (s % 15))

\* a \div 2^s
ShiftRight(a, s) ==
    IF s \div 15 >= Len(a) THEN <<>>
    ELSE DivSmall(SubSeq(a, (s \div 15) + 1, Len(a)), 2 ^ (s % 15)).q

\* a % 2^s
LowBits(a, s) == SubN(a, ShiftLeft(ShiftRight(a, s), s))

Zero == [m |-> <<>>, e |-> 0]

\* the one element of a set.  Making a name range over {value} binds it to
\* the value, which is then computed once.
Value(S) == CHOOSE v \in S : TRUE

\* kept, the 53 highest bits of a number, moved to the next double when the
\* bits below them compare as c with a half (sticky: there is more below)
Nearest(kept, c, sticky, e) ==
    Value({IF BitLen(m) = 54 THEN [m |-> ShiftRight(m, 1), e |-> e + 1]
           ELSE [m |-> m, e |-> e] :
           m \in {IF c > 0 \/ (c = 0 /\ (sticky \/ kept[1] % 2 = 1))
                  THEN AddN(kept, <<1>>) ELSE kept}})

\* the double nearest to q * 2^e (sticky: q stands for a little more than q),
\* ties to the even mantissa
Round53(q, sticky, e) ==
    Value({IF len <= 53 THEN [m |-> ShiftLeft(n, 53 - len), e |-> e - (53 - len)]
           ELSE Value({Nearest(kept, c, sticky, e + (len - 53)) :
                          kept \in {ShiftRight(n, len - 53)},
                          c \in {CmpN(LowBits(n, len - 53), ShiftLeft(<<1>>, len - 54))}}) :
           n \in {q}, len \in {BitLen(q)}})

\* the double a decimal number of v thousandths is read as
DoubleOfDecimal(v) ==
    IF v = 0 THEN Zero
    ELSE LET d == DivSmall(ShiftLeft(Limbs(v), 75), 1000) IN Round53(d.q, d.r # 0, 0 - 75)

\* x * n for an int n
DoubleTimes(x, n) ==
    IF n = 0 \/ x.m = <<>> THEN Zero ELSE Round53(MulSmall(x.m, n), FALSE, x.e)

\* x + y
DoublePlus(x, y) ==
    IF x.m = <<>> THEN y
    ELSE IF y.m = <<>> THEN x
    ELSE LET e == IF x.e < y.e THEN x.e ELSE y.e IN
         Round53(AddN(ShiftLeft(x.m, x.e - e), ShiftLeft(y.m, y.e - e)), FALSE, e)

Signed(x, neg) == [m |-> x.m, e |-> x.e, neg |-> neg /\ x.m # <<>>]

\* |x| - |y| with its sign, the numbers written over one exponent
DoubleMinus(x, y) ==
    LET e == IF x.e < y.e THEN x.e ELSE y.e
        a == ShiftLeft(x.m, x.e - e)
        b == ShiftLeft(y.m, y.e - e)
        c == CmpN(a, b)
    IN IF c = 0 THEN Signed(Zero, FALSE)
       ELSE Value({Signed(d, c < 0) :
                   d \in {Round53(IF c > 0 THEN SubN(a, b) ELSE SubN(b, a), FALSE, e)}})

\* x + y of the absolute values x and y and their signs
DoubleSum(x, xneg, y, yneg) ==
    IF xneg = yneg THEN Signed(DoublePlus(x, y), xneg)
    ELSE IF xneg THEN DoubleMinus(y, x)
    ELSE DoubleMinus(x, y)

\* a float is written [near, ulps]: the double nearest to near thousandths,
\* moved by ulps units in the last place (0: the double of that decimal)
Float(near, ulps) == [near |-> near, ulps |-> ulps]

Literal(v) == Float(v, 0)

\* round(x * 1000) for a double below one
NearOf(x) ==
    (IntOf(ShiftRight(MulSmall(x.m, 2000), 0 - x.e)) + 1) \div 2

\* the units in the last place from the double of near thousandths to x
UlpsOf(x, near) ==
    LET f == DoubleOfDecimal(near)
        e == IF x.e < f.e THEN x.e ELSE f.e
        a == ShiftLeft(x.m, x.e - e)
        b == ShiftLeft(f.m, f.e - e)
    IN IF CmpN(a, b) >= 0 THEN IntOf(SubN(a, b)) ELSE 0 - IntOf(SubN(b, a))

FloatOf(x) ==
    IF x.m = <<>> THEN Literal(0) ELSE Float(NearOf(x), UlpsOf(x, NearOf(x)))

DoubleOf(f) ==
    LET d == DoubleOfDecimal(f.near) IN
    IF f.ulps = 0 THEN d
    ELSE IF f.ulps > 0 THEN Round53(AddN(d.m, Limbs(f.ulps)), FALSE, d.e)
    ELSE IF BitLen(SubN(d.m, Limbs(0 - f.ulps))) = 53
    THEN [m |-> SubN(d.m, Limbs(0 - f.ulps)), e |-> d.e]
    ELSE [m |-> SubN(MulSmall(d.m, 2), Limbs(0 - f.ulps)), e |-> d.e - 1]

\* -f and |f|: the doubles are symmetric about zero, and so is the rounding
Negate(f) == Float(0 - f.near, 0 - f.ulps)
Magnitude(f) == IF f.near < 0 THEN Negate(f) ELSE f

\* float * int: the product of the absolute values, with the sign
FloatTimes(f, n) ==
    Value({IF (f.near < 0) = (n < 0) THEN p ELSE Negate(p) :
           p \in {FloatOf(DoubleTimes(DoubleOf(Magnitude(f)), IF n < 0 THEN 0 - n ELSE n))}})

\* float + float: of one sign the sum of the absolute values, of two signs
\* their difference, with the sign of the greater
FloatPlus(f, g) ==
    Value({IF x.neg THEN Negate(FloatOf(x)) ELSE FloatOf(x) :
           x \in {DoubleSum(DoubleOf(Magnitude(f)), f.near < 0,
                            DoubleOf(Magnitude(g)), g.near < 0)}})
----------------------------------------------------------------------------
(* The store *)

RowsOf(st, merchant_id) ==
    IF TableName(merchant_id) \in DOMAIN st THEN st[TableName(merchant_id)] ELSE <<>>

RECURSIVE SumLen(_, _)
SumLen(st, names) ==
    IF names = {} THEN 0
    ELSE LET n == CHOOSE x \in names : TRUE
         IN Len(st[n]) + SumLen(st, names \ {n})

TotalRows(st) == SumLen(st, DOMAIN st)

\* an amount of zero or more rounded to two decimals, half up; a double just
\* below a half is below it in its shortest decimal text as well
HalfUp(amount) ==
    IF amount.near % 10 = 5 /\ amount.ulps < 0 THEN amount.near - 5
    ELSE ((amount.near + 5) \div 10) * 10

\* a column of one decimal instead of two
Quantize_OneDecimal(amount) == ((amount.near + 50) \div 100) * 100
\* Column('amount', Numeric(10, 2)): the float is sent as its shortest
\* decimal text and that is rounded to two decimals, half away from zero.
\* Amounts are below 2^31 thousandths, far from the column's overflow at 10^8.
Quantize(amount) ==
    IF amount.near < 0 THEN 0 - HalfUp(Negate(amount)) ELSE HalfUp(amount)

\* the existence query issued by Table.create(engine, checkfirst=True)
HasTable(st, name) == name \in DOMAIN st

\* CREATE TABLE: an error when the relation already exists
CreateRaises(st, name) == name \in DOMAIN st

CreateTableDDL(st, name) == st @@ (name :> <<>>)

----------------------------------------------------------------------------
(* The registry: metadata.tables of one process *)

\* metadata.tables.get(table_name)
get_merchant_transaction_table(reg, merchant_id) ==
    IF TableName(merchant_id) \in DOMAIN reg THEN reg[TableName(merchant_id)] ELSE None

\* "if table_name in metadata.tables: return metadata.tables[table_name]"
IsRegistered(reg, name) == name \in DOMAIN reg

\* Table(table_name, metadata, ...): a new Table object, entered in metadata
RegisterTable(reg, nh, name) == reg @@ (name :> nh)

\* a version that builds and registers a new Table object on every call
create_merchant_transaction_table_NoCache(reg, nh, st, merchant_id) ==
    LET name == TableName(merchant_id)
        reg2 == [n \in DOMAIN reg \cup {name} |-> IF n = name THEN nh ELSE reg[n]]
    IN [handle |-> nh, reg |-> reg2, nh |-> nh + 1,
        store |-> IF HasTable(st, name) THEN st ELSE CreateTableDDL(st, name),
        raised |-> FALSE, path |-> "created"]

\* create_merchant_transaction_table run without interruption.
\* The result carries the process's registry, the store, the handle and the
\* path taken: the handle was cached, the table existed, or it was created.
create_merchant_transaction_table(reg, nh, st, merchant_id) ==
    LET name == TableName(merchant_id) IN
    IF IsRegistered(reg, name)
    THEN [handle |-> reg[name], reg |-> reg, nh |-> nh, store |-> st, raised |-> FALSE,
          path |-> "cached"]
    ELSE LET reg2 == RegisterTable(reg, nh, name) IN
         IF HasTable(st, name)
         THEN [handle |-> reg2[name], reg |-> reg2, nh |-> nh + 1, store |-> st,
               raised |-> FALSE, path |-> "existed"]
         ELSE [handle |-> reg2[name], reg |-> reg2, nh |-> nh + 1,
               store |-> CreateTableDDL(st, name), raised |-> CreateRaises(st, name),
               path |-> "created"]

----------------------------------------------------------------------------
(* Guest identities: get_or_create_guest_user *)

\* a lookup that never finds the merchant's guest identity
FindGuest_Never(gu, merchant_id) == None

\* session.query(GuestUser).filter(merchant_id == m).first(): an id, or None
FindGuest(gu, merchant_id) ==
    IF \E i \in 1..Len(gu) : gu[i] = merchant_id
    THEN CHOOSE i \in 1..Len(gu) :
            /\ gu[i] = merchant_id
            /\ \A j \in 1..Len(gu) : gu[j] = merchant_id => i <= j
    ELSE None

\* the guest_users table without the unique constraint on merchant_id
GuestInsertRaises_NoUnique(gu, merchant_id) == merchant_id \notin Merchants

\* merchant_id = Column(..., ForeignKey("merchants.id"), unique=True):
\* the commit of a new row fails when either constraint is broken
GuestInsertRaises(gu, merchant_id) ==
    \/ merchant_id \notin Merchants
    \/ \E i \in 1..Len(gu) : gu[i] = merchant_id

\* session.add(GuestUser(merchant_id=...)); session.commit()
InsertGuest(gu, merchant_id) == Append(gu, merchant_id)

\* an INSERT that a constraint refuses has drawn its id from the serial
\* sequence, and the sequence does not go back: the id stays without a row
\* (None in the place of that id)
RefusedGuest(gu) == Append(gu, None)

\* get_or_create_guest_user run without interruption
get_or_create_guest_user(gu, merchant_id) ==
    LET found == FindGuest(gu, merchant_id) IN
    IF found # None
    THEN [id |-> found, guests |-> gu, raised |-> FALSE]
    ELSE IF GuestInsertRaises(gu, merchant_id)
         THEN [id |-> None, guests |-> RefusedGuest(gu), raised |-> TRUE]
         ELSE [id |-> Len(gu) + 1, guests |-> InsertGuest(gu, merchant_id),
               raised |-> FALSE]

\* the route create_guest_user run without interruption.  An identity that
\* exists is answered with GuestUserResponse(id, merchant_id, timestamp), which
\* lacks the required transaction_id and raises; a new GuestUser(merchant_id=...)
\* is built without transaction_id, a column that is NOT NULL, so its commit
\* is refused.  Every call raises.
create_guest_user(gu, merchant_id) ==
    LET found == FindGuest(gu, merchant_id) IN
    IF found # None
    THEN [id |-> found, guests |-> gu, raised |-> TRUE]
    ELSE [id |-> None, guests |-> RefusedGuest(gu), raised |-> TRUE]

----------------------------------------------------------------------------
(* The write path: insert_transaction *)

\* the arguments of one insert_transaction call; timestamp None = not given
Args(user_id, amount, type, description, payment_method, timestamp, is_guest) ==
    [user_id |-> user_id, amount |-> amount, type |-> type,
     description |-> description, payment_method |-> payment_method,
     timestamp |-> timestamp, is_guest_transaction |-> is_guest]

\* "if timestamp is None: timestamp = datetime.utcnow()" (instants start at 1)
ResolveTimestamp(timestamp, clock) == IF timestamp = None THEN clock ELSE timestamp

\* _map_transaction_type_to_db: the enum's value is the stored value
MapTypeToDb(type) == type

\* a write path that copies user_id into guest_user_id for every row
GuestColumn_Always(user_id, is_guest) == user_id

\* guest_user_id=user_id if is_guest_transaction else None
GuestColumn(user_id, is_guest) == IF is_guest THEN user_id ELSE None

\* the row table.insert().values(...) writes; transaction_id is the table's
\* serial.  by_guest_insert is a history field: how the row was inserted.
NewRow(rows, user_id, a, clock) ==
    [transaction_id |-> Len(rows) + 1,
     user_id |-> user_id,
     timestamp |-> ResolveTimestamp(a.timestamp, clock),
     amount |-> Quantize(a.amount),
     type |-> MapTypeToDb(a.type),
     description |-> a.description,
     payment_method |-> a.payment_method,
     guest_user_id |-> GuestColumn(user_id, a.is_guest_transaction),
     by_guest_insert |-> a.is_guest_transaction]

InsertRow(st, name, row) == [st EXCEPT ![name] = Append(@, row)]

\* insert_transaction run without interruption
insert_transaction(reg, nh, st, gu, clock, merchant_id, a) ==
    LET name == TableName(merchant_id)
        t == IF get_merchant_transaction_table(reg, merchant_id) = None
             THEN create_merchant_transaction_table(reg, nh, st, merchant_id)
             ELSE [handle |-> reg[name], reg |-> reg, nh |-> nh, store |-> st,
                   raised |-> FALSE, path |-> "cached"]
        g == IF a.is_guest_transaction
             THEN get_or_create_guest_user(gu, merchant_id)
             ELSE [id |-> a.user_id, guests |-> gu, raised |-> FALSE]
        row == NewRow(t.store[name], g.id, a, clock)
    IN  IF t.raised \/ g.raised
        THEN [reg |-> t.reg, nh |-> t.nh, store |-> t.store, guests |-> g.guests,
              raised |-> TRUE, transaction_id |-> None, user_id |-> None]
        ELSE [reg |-> t.reg, nh |-> t.nh, store |-> InsertRow(t.store, name, row),
              guests |-> g.guests, raised |-> FALSE,
              transaction_id |-> row.transaction_id, user_id |-> g.id]

----------------------------------------------------------------------------
(* The read path *)

Range(f) == {f[i] : i \in DOMAIN f}

\* ORDER BY timestamp DESC: every order of the rows that is descending in
\* timestamp; rows of equal timestamp come in an order the store chooses
OrderedByTimestampDesc(rows) ==
    {s \in [1..Len(rows) -> Range(rows)] :
        /\ \A i, j \in 1..Len(rows) : i # j => s[i] # s[j]
        /\ \A i \in 1..(Len(rows) - 1) : s[i].timestamp >= s[i + 1].timestamp}

\* LIMIT limit OFFSET offset
Page(s, limit, offset) ==
    SubSeq(s, offset + 1, IF offset + limit < Len(s) THEN offset + limit ELSE Len(s))

\* a filter that leaves out the row exactly at the cutoff
NotOlderThan_Strict(timestamp, cutoff) == timestamp > cutoff

\* "table.c.timestamp >= date_filter" / "table.c.timestamp >= cutoff_date"
NotOlderThan(timestamp, cutoff) == timestamp >= cutoff

DefaultLimit == 100
DefaultDays == 30

\* get_merchant_transactions: the results the store may return
get_merchant_transactions(reg, st, merchant_id, limit, offset) ==
    IF get_merchant_transaction_table(reg, merchant_id) = None
    THEN {<<>>}
    ELSE {Page(s, limit, offset) :
            s \in OrderedByTimestampDesc(st[TableName(merchant_id)])}

\* datetime.now(): the server's local time
LocalNow(clock, offset) == clock + offset

\* get_merchant_transactions_by_period: cutoff_date = datetime.now() - timedelta(days)
get_merchant_transactions_by_period(reg, st, clock, offset_tz, merchant_id, days, limit, offset) ==
    IF get_merchant_transaction_table(reg, merchant_id) = None
    THEN {<<>>}
    ELSE LET cutoff_date == LocalNow(clock, offset_tz) - days * DayTicks
             InPeriod(r) == NotOlderThan(r.timestamp, cutoff_date)
         IN {Page(s, limit, offset) :
               s \in OrderedByTimestampDesc(SelectSeq(st[TableName(merchant_id)], InPeriod))}

\* SQL SUM(amount) and AVG(amount) are NULL over no rows.  A scalar is a
\* record: null, or a value.
RECURSIVE SumAmount(_)
SumAmount(rows) ==
    IF rows = <<>> THEN 0 ELSE Head(rows).amount + SumAmount(Tail(rows))

RECURSIVE Gcd(_, _)
Gcd(a, b) == IF b = 0 THEN a ELSE Gcd(b, a % b)

\* an exact quotient of thousandths, in lowest terms
Ratio(n, d) == [num |-> n \div Gcd(n, d), den |-> d \div Gcd(n, d)]

\* a scalar of a query: null, or a value; zero says that the value is 0
SqlSum(rows) ==
    [null |-> rows = <<>>, zero |-> SumAmount(rows) = 0,
     value |-> Ratio(SumAmount(rows), 1)]

\* a * 10^k
RECURSIVE TimesPow10(_, _)
TimesPow10(a, k) ==
    IF k = 0 THEN a
    ELSE IF k >= 4 THEN TimesPow10(MulSmall(a, 10000), k - 4)
    ELSE MulSmall(a, 10 ^ k)

\* a \div 10^k for k a multiple of 4; rest: the division left a remainder
RECURSIVE DivPow10(_, _)
DivPow10(a, k) ==
    IF k = 0 THEN [q |-> a, rest |-> FALSE]
    ELSE LET d == DivSmall(a, 10000)
             deeper == DivPow10(d.q, k - 4)
         IN [q |-> deeper.q, rest |-> deeper.rest \/ d.r # 0]

\* the scale the store gives a quotient of NUMERICs (select_div_scale): at
\* least 16 significant digits, counted in groups of four decimal digits from
\* the first groups of the dividend, s thousandths, and of the divisor n
DivScale(s, n) ==
    LET weight == IF s >= 10000000 THEN 1 ELSE IF s >= 1000 THEN 0
                  ELSE IF s > 0 THEN 0 - 1 ELSE 0
        first == IF s >= 10000000 THEN s \div 10000000
                 ELSE IF s >= 1000 THEN s \div 1000 ELSE s * 10
        qweight == IF first <= n THEN weight - 1 ELSE weight
    IN 16 - qweight * 4

\* s thousandths divided by n and rounded, half away from zero, to scale
\* decimal places: the digits of the quotient as one natural number
QuotientDigits(s, n, scale) ==
    DivSmall(AddN(TimesPow10(MulSmall(Limbs(s), 2), scale - 3), Limbs(n)), 2 * n).q

\* AVG(amount) of a NUMERIC column: SUM / COUNT as a NUMERIC of DivScale places
NumericAvg(sum, count) ==
    LET s == IF sum < 0 THEN 0 - sum ELSE sum
        scale == DivScale(s, count)
    IN [digits |-> QuotientDigits(s, count, scale), scale |-> scale, neg |-> sum < 0]

SqlAvg(rows) ==
    [null |-> rows = <<>>, zero |-> SumAmount(rows) = 0,
     value |-> IF rows = <<>> THEN 0 ELSE NumericAvg(SumAmount(rows), Len(rows))]

\* float(Decimal): the double nearest to digits / 10^scale, with the sign
DoubleOfNumeric(v) ==
    Value({Signed(Round53(d.q, d.rest, 0 - 90), v.neg) :
           d \in {DivPow10(ShiftLeft(v.digits, 90), v.scale)}})

\* SQL COUNT(transaction_id)
SqlCount(rows) == Len(rows)

\* the scalar passed on unchanged, NULL included
OrZero_Missing(x) == x

\* ".scalar() or 0": None and a zero both become the int 0
OrZero(x) ==
    IF x.null \/ x.zero THEN [null |-> FALSE, zero |-> TRUE, value |-> 0] ELSE x

\* float(x): a TypeError on None
FloatRaises(x) == x.null

\* float(total): the total has two decimal places, and its float is written
\* as that decimal
FloatOfSum(x) == IF x.null \/ x.zero THEN Ratio(0, 1) ELSE x.value

\* float(avg_transaction): a double
FloatOfAvg(x) == IF x.null \/ x.zero THEN Signed(Zero, FALSE) ELSE DoubleOfNumeric(x.value)

ZeroAnalytics ==
    [raised |-> FALSE, total_sales |-> Ratio(0, 1), total_transactions |-> 0,
     total_pending |-> Ratio(0, 1), avg_transaction |-> Signed(Zero, FALSE)]

\* get_merchant_transaction_analytics: date_filter = datetime.utcnow() - timedelta(days)
get_merchant_transaction_analytics(reg, st, clock, merchant_id, days) ==
    IF get_merchant_transaction_table(reg, merchant_id) = None
    THEN ZeroAnalytics
    ELSE LET rows == st[TableName(merchant_id)]
             date_filter == clock - days * DayTicks
             PaidInWindow(r) == r.type = PAYED /\ NotOlderThan(r.timestamp, date_filter)
             InWindow(r) == NotOlderThan(r.timestamp, date_filter)
             PendingInWindow(r) ==
                 r.type = PAY_LATER /\ NotOlderThan(r.timestamp, date_filter)
             total_sales == OrZero(SqlSum(SelectSeq(rows, PaidInWindow)))
             total_transactions == SqlCount(SelectSeq(rows, InWindow))
             total_pending == OrZero(SqlSum(SelectSeq(rows, PendingInWindow)))
             avg_transaction == OrZero(SqlAvg(SelectSeq(rows, InWindow)))
         IN [raised |-> FloatRaises(total_sales) \/ FloatRaises(total_pending)
                          \/ FloatRaises(avg_transaction),
             total_sales |-> FloatOfSum(total_sales),
             total_transactions |-> total_transactions,
             total_pending |-> FloatOfSum(total_pending),
             avg_transaction |-> FloatOfAvg(avg_transaction)]

----------------------------------------------------------------------------
(* Startup: load_existing_transaction_tables *)

\* SELECT tablename FROM pg_tables WHERE tablename LIKE 'transaction_%'
MatchingTables(st) == {name \in DOMAIN st : MatchesPattern(name)}

\* the orders in which the query may list a set of names
RECURSIVE Orders(_)
Orders(names) ==
    IF names = {} THEN {<<>>}
    ELSE UNION {{<<n>> \o s : s \in Orders(names \ {n})} : n \in names}

\* a loop that a name which is no integer ends
RECURSIVE LoadLoop_Abort(_, _, _, _)
LoadLoop_Abort(reg, nh, st, table_names) ==
    IF table_names = <<>> THEN [reg |-> reg, nh |-> nh, store |-> st]
    ELSE LET table_name == Head(table_names) IN
         IF ~ParsesAsInt(StripPrefix(table_name))
         THEN [reg |-> reg, nh |-> nh, store |-> st]
         ELSE IF table_name \notin DOMAIN reg
              THEN LET t == create_merchant_transaction_table(
                               reg, nh, st, ParseInt(StripPrefix(table_name)))
                   IN LoadLoop_Abort(t.reg, t.nh, t.store, Tail(table_names))
              ELSE LoadLoop_Abort(reg, nh, st, Tail(table_names))

\* the body of "for table_name in table_names": a name that is not yet in
\* metadata and parses as an integer gets its Table object; a ValueError is
\* caught and the loop goes on
RECURSIVE LoadLoop(_, _, _, _)
LoadLoop(reg, nh, st, table_names) ==
    IF table_names = <<>> THEN [reg |-> reg, nh |-> nh, store |-> st]
    ELSE LET table_name == Head(table_names) IN
         IF table_name \notin DOMAIN reg /\ ParsesAsInt(StripPrefix(table_name))
         THEN LET t == create_merchant_transaction_table(
                          reg, nh, st, ParseInt(StripPrefix(table_name)))
              IN LoadLoop(t.reg, t.nh, t.store, Tail(table_names))
         ELSE LoadLoop(reg, nh, st, Tail(table_names))

load_existing_transaction_tables(reg, nh, st, table_names) ==
    LoadLoop(reg, nh, st, table_names)

----------------------------------------------------------------------------
(* The marketplace: carts, orders and the connection manager *)

WebSockets == {"w1", "w2", "w3"}              \* WebSocket objects
Requests == {"X", "Y"}                  \* checkout requests served by process A
Uuids == {"0A1B2C3D", "4E5F6A7B"}       \* values of uuid.uuid4().hex[:8].upper()
UnknownMerchant == 7                    \* an id with no row in the merchants table

ONLINE == "online"
CASH == "cash"
PaymentMethod == {ONLINE, CASH}
GuestCustomer == "Guest Customer"
MarketplaceOrder == "Marketplace Order: "

\* one line of a cart (CartItem); unit_price is the float whose decimal text
\* has that many thousandths, quantity is an int
CartItem(id, name, unit_price, quantity, unit, merchant_id) ==
    [id |-> id, name |-> name, unit_price |-> unit_price, quantity |-> quantity,
     unit |-> unit, merchant_id |-> merchant_id]

\* the body of POST /orders/checkout; customer_name NullText = not given
CheckoutRequest(cart_items, payment_method, customer_name, is_guest_order) ==
    [cart_items |-> cart_items, payment_method |-> payment_method,
     customer_name |-> customer_name, is_guest_order |-> is_guest_order]

\* the keys of merchant_orders, in the order a dict keeps them: first appearance
RECURSIVE MerchantKeys(_)
MerchantKeys(cart) ==
    IF cart = <<>> THEN <<>>
    ELSE LET front == MerchantKeys(SubSeq(cart, 1, Len(cart) - 1))
             m == cart[Len(cart)].merchant_id
         IN IF \E i \in 1..Len(front) : front[i] = m THEN front ELSE Append(front, m)

\* merchant_orders[merchant_id]: that merchant's lines, in cart order
ItemsOf(cart, m) == SelectSeq(cart, LAMBDA item : item.merchant_id = m)

\* the lines the carts of the specifications are made of: rice, salt and
\* cloves are merchant 1's, dal is merchant 12's; the price of dal has three
\* decimals, and five times the price of cloves is a double just below 0.055
Rice == CartItem(1, "rice", 10, 2, "kg", 1)
Salt == CartItem(3, "salt", 30, 1, "kg", 1)
Dal == CartItem(2, "dal", 12, 1, "kg", 12)
Clove == CartItem(4, "clove", 11, 5, "g", 1)
Free == CartItem(1, "rice", 10, 0, "kg", 1)                  \* a line of quantity 0
Refund == CartItem(5, "refund", -55, 1, "kg", 1)             \* a line of price -0.055
Ghost == CartItem(9, "ghost", 10, 1, "kg", UnknownMerchant)  \* a line of no merchant

\* item.unit_price * item.quantity: a float times an int
LineTotal(item) == FloatTimes(Literal(item.unit_price), item.quantity)

\* sum(item.unit_price * item.quantity for item in items): the products are
\* added to 0 one after the other, each sum rounded to a double
RECURSIVE MerchantTotal(_)
MerchantTotal(items) ==
    IF items = <<>> THEN Literal(0)
    ELSE FloatPlus(MerchantTotal(SubSeq(items, 1, Len(items) - 1)),
              LineTotal(items[Len(items)]))

\* sep.join(parts)
RECURSIVE Join(_, _)
Join(parts, sep) ==
    IF Len(parts) = 0 THEN ""
    ELSE IF Len(parts) = 1 THEN parts[1]
    ELSE parts[1] \o sep \o Join(Tail(parts), sep)

\* f"{item.name} ({item.quantity} {item.unit})"
ItemText(item) == item.name \o " (" \o ToString(item.quantity) \o " " \o item.unit \o ")"

\* items_description: the lines of the partition, joined by ", "
ItemsDescription(items) == Join([i \in 1..Len(items) |-> ItemText(items[i])], ", ")

\* PaymentMethod(value): ValueError unless the value is one of the enum's
PaymentMethodRaises(value) == value \notin PaymentMethod

\* f"ORD_{merchant_id}_{uuid.uuid4().hex[:8].upper()}"
OrderId(merchant_id, u) == <<"ORD", merchant_id, u>>

\* "checkout_data.customer_name or 'Guest Customer'": None and the empty
\* string are both falsy
CustomerName(name) == IF name = NullText \/ name = "" THEN GuestCustomer ELSE name

\* item.get("unit", "piece")
DefaultUnit == "piece"

\* an OrderItem row whose total_price forgets the quantity
OrderItemRow_NoQuantity(item) ==
    [item_id |-> item.id, item_name |-> item.name, quantity |-> item.quantity,
     unit |-> DefaultUnit, unit_price |-> Literal(item.unit_price),
     total_price |-> Literal(item.unit_price)]

\* an OrderItem row built from one line of the cart; the dict process_checkout
\* makes of the line has no "unit", so the row gets item.get("unit", "piece")
OrderItemRow(item) ==
    [item_id |-> item.id, item_name |-> item.name, quantity |-> item.quantity,
     unit |-> DefaultUnit, unit_price |-> Literal(item.unit_price),
     total_price |-> LineTotal(item)]

\* no Order; in the orders table, an id that the sequence gave to an insert
\* that failed
NoOrder ==
    [id |-> None, order_id |-> <<>>, transaction_id |-> None, merchant_id |-> None,
     user_id |-> None, guest_user_id |-> None, customer_name |-> NullText,
     total_amount |-> Literal(0), payment_method |-> NullText, is_guest_order |-> FALSE,
     status |-> "none", created_at |-> None, updated_at |-> None, items |-> <<>>]

\* the rows of the orders table
Placed(ords) == SelectSeq(ords, LAMBDA o : o.id # None)

\* the orders table without the unique constraint on order_id
OrderInsertRaises_NoUnique(ords, us, gu, order_id, merchant_id, user_id, guest_user_id) ==
    \/ merchant_id \notin Merchants
    \/ user_id # None /\ user_id \notin us
    \/ guest_user_id # None /\ ~(guest_user_id \in 1..Len(gu) /\ gu[guest_user_id] # None)

\* the constraints of the orders table: order_id unique, merchant_id a
\* foreign key to merchants, user_id a foreign key to users, whose ids are us,
\* and guest_user_id a foreign key to guest_users
OrderInsertRaises(ords, us, gu, order_id, merchant_id, user_id, guest_user_id) ==
    \/ \E i \in 1..Len(ords) : ords[i].order_id = order_id
    \/ merchant_id \notin Merchants
    \/ user_id # None /\ user_id \notin us
    \/ guest_user_id # None /\ ~(guest_user_id \in 1..Len(gu) /\ gu[guest_user_id] # None)

\* the INSERT that failed has taken its id from the sequence of orders.id
RefusedOrder(ords) == Append(ords, NoOrder)

\* create_order: the Order row and its OrderItem rows, committed together
create_order(ords, us, gu, clock, transaction_id, merchant_id, user_id, guest_user_id, customer_name, total_amount, payment_method, is_guest_order, items, u) ==
    LET order_id == OrderId(merchant_id, u)
        order == [id |-> Len(ords) + 1, order_id |-> order_id,
                  transaction_id |-> transaction_id, merchant_id |-> merchant_id,
                  user_id |-> user_id, guest_user_id |-> guest_user_id,
                  customer_name |-> customer_name, total_amount |-> total_amount,
                  payment_method |-> payment_method, is_guest_order |-> is_guest_order,
                  status |-> "pending", created_at |-> clock, updated_at |-> clock,
                  items |-> [i \in 1..Len(items) |-> OrderItemRow(items[i])]]
    IN IF OrderInsertRaises(ords, us, gu, order_id, merchant_id, user_id, guest_user_id)
       THEN [orders |-> RefusedOrder(ords), raised |-> TRUE, order |-> NoOrder]
       ELSE [orders |-> Append(ords, order), raised |-> FALSE, order |-> order]

DefaultOrderLimit == 50

\* order_by(Order.created_at.desc())
OrderedByCreatedAtDesc(ords) ==
    {s \in [1..Len(ords) -> Range(ords)] :
        /\ \A i, j \in 1..Len(ords) : i # j => s[i] # s[j]
        /\ \A i \in 1..(Len(ords) - 1) : s[i].created_at >= s[i + 1].created_at}

\* get_merchant_orders: the merchant's orders, newest first, one page; orders
\* created at the same instant come in any order
get_merchant_orders(ords, merchant_id, limit, offset) ==
    {Page(s, limit, offset) :
        s \in OrderedByCreatedAtDesc(SelectSeq(Placed(ords),
                                               LAMBDA o : o.merchant_id = merchant_id))}

\* get_order_by_id: the order with that order_id, or NoOrder
get_order_by_id(ords, order_id) ==
    IF \E i \in 1..Len(ords) : ords[i].order_id = order_id
    THEN ords[CHOOSE i \in 1..Len(ords) : ords[i].order_id = order_id]
    ELSE NoOrder

\* one entry of order_data["items"]
ItemData(item) ==
    [id |-> item.item_id, name |-> item.item_name, quantity |-> item.quantity,
     unit_price |-> item.unit_price, total_price |-> item.total_price]

\* order_data, the payload of the new_order event
OrderData(order) ==
    [order_id |-> order.order_id, transaction_id |-> order.transaction_id,
     user_id |-> order.user_id, merchant_id |-> order.merchant_id,
     amount |-> order.total_amount,
     items |-> [i \in 1..Len(order.items) |-> ItemData(order.items[i])],
     customer_name |-> order.customer_name, payment_method |-> order.payment_method,
     is_guest_order |-> order.is_guest_order, timestamp |-> order.created_at]

\* the message notify_order_update builds
NewOrderMessage(merchant_id, order_data) ==
    [type |-> "new_order", data |-> order_data, merchant_id |-> merchant_id,
     timestamp |-> order_data.timestamp]

\* {"type": "pong"}
Pong == [type |-> "pong"]

\* one entry of transaction_list: the columns of a ledger row by position
TransactionEntry(txn) ==
    [transaction_id |-> txn.transaction_id, user_id |-> txn.user_id,
     guest_user_id |-> txn.guest_user_id, timestamp |-> txn.timestamp,
     amount |-> Literal(txn.amount), type |-> txn.type, description |-> txn.description,
     payment_method |-> txn.payment_method, is_guest_order |-> txn.guest_user_id # None]

\* the answer to get_orders
OrdersUpdate(merchant_id, transactions) ==
    [type |-> "orders_update",
     data |-> [i \in 1..Len(transactions) |-> TransactionEntry(transactions[i])],
     merchant_id |-> merchant_id]

----------------------------------------------------------------------------
(* ConnectionManager *)

\* "if user_id not in connections: connections[user_id] = []" and the append
Register(conns, websocket, id) ==
    IF id \in DOMAIN conns THEN [conns EXCEPT ![id] = Append(@, websocket)]
    ELSE conns @@ (id :> <<websocket>>)

\* the two dicts of the manager
Connections(mc, uc) == [mc |-> mc, uc |-> uc]

\* connect: the websocket is appended to the list of its merchant or of its
\* user; with any other user_type it is accepted and entered nowhere
connect(mc, uc, websocket, user_id, user_type) ==
    IF user_type = "merchant" THEN Connections(Register(mc, websocket, user_id), uc)
    ELSE IF user_type = "user" THEN Connections(mc, Register(uc, websocket, user_id))
    ELSE Connections(mc, uc)

\* list.remove(ws): the first occurrence of ws leaves the list
RemoveFirst(list, ws) ==
    LET k == CHOOSE i \in 1..Len(list) :
                 list[i] = ws /\ \A j \in 1..(i - 1) : list[j] # ws
    IN SubSeq(list, 1, k - 1) \o SubSeq(list, k + 1, Len(list))

\* "for ws in disconnected: list.remove(ws)": remove raises ValueError when
\* ws is not in the list, and the removals before it stay
RECURSIVE RemoveFrom(_, _)
RemoveFrom(list, disconnected) ==
    IF disconnected = <<>> THEN [list |-> list, raised |-> FALSE]
    ELSE IF \A i \in 1..Len(list) : list[i] # Head(disconnected)
    THEN [list |-> list, raised |-> TRUE]
    ELSE RemoveFrom(RemoveFirst(list, Head(disconnected)), Tail(disconnected))

\* one branch of disconnect: the websocket leaves the list once, and an empty
\* list leaves the dict
Unregister(conns, websocket, id) ==
    IF id \in DOMAIN conns /\ (\E i \in 1..Len(conns[id]) : conns[id][i] = websocket)
    THEN LET rest == RemoveFirst(conns[id], websocket) IN
         IF rest = <<>> THEN [k \in DOMAIN conns \ {id} |-> conns[k]]
         ELSE [conns EXCEPT ![id] = rest]
    ELSE conns

\* disconnect
disconnect(mc, uc, websocket, user_id, user_type) ==
    IF user_type = "merchant" THEN Connections(Unregister(mc, websocket, user_id), uc)
    ELSE IF user_type = "user" THEN Connections(mc, Unregister(uc, websocket, user_id))
    ELSE Connections(mc, uc)

\* the handler websocket_orders of one connection: the id and the user_type
\* of its token, or no connection served
Session(user_id, user_type) == [user_id |-> user_id, user_type |-> user_type]

NoSession == Session(None, "none")

\* the sessions of the websockets registered in mc and uc
SessionsOf(mc, uc) ==
    [ws \in WebSockets |->
        IF \E k \in DOMAIN mc : ws \in Range(mc[k])
        THEN Session(CHOOSE k \in DOMAIN mc : ws \in Range(mc[k]), "merchant")
        ELSE IF \E k \in DOMAIN uc : ws \in Range(uc[k])
        THEN Session(CHOOSE k \in DOMAIN uc : ws \in Range(uc[k]), "user")
        ELSE NoSession]

\* websocket.send_text raises when the client is gone
SendRaises(cl, websocket) == websocket \in cl

\* "if order_data.get('user_id')": the order names a user
NamesUser(order_data) == order_data.user_id # None

----------------------------------------------------------------------------
(* process_checkout *)

\* an HTTP response; the order fields are those of OrderResponse
HttpResponse(handler, status, request, order_id, total_amount, items_count, merchant_id) ==
    [handler |-> handler, status |-> status, request |-> request, order_id |-> order_id,
     total_amount |-> total_amount, items_count |-> items_count,
     merchant_id |-> merchant_id]

NoRequest == [req |-> CheckoutRequest(<<>>, NullText, NullText, FALSE), us |-> <<>>]
NoHttp == HttpResponse("none", 0, NoRequest, <<>>, Literal(0), 0, None)

\* "except Exception as e: raise HTTPException(500)": the clause also catches
\* an HTTPException raised inside the try block, whatever its status
ExceptException(status) == 500

\* the arguments checkout passes to insert_transaction for the lines items
CheckoutArgs(req, items) ==
    Args(None, MerchantTotal(items), PAYED, MarketplaceOrder \o ItemsDescription(items),
         req.payment_method, None, req.is_guest_order)

\* the state after insert_transaction gave r
WithInsert(S, r) ==
    [S EXCEPT !.reg = r.reg, !.nh = r.nh, !.store = r.store, !.guests = r.guests,
              !.raised = r.raised]

\* a checkout whose orders are committed only at its end: a failure loses
\* the orders of the merchants already processed
WithOrder_Uncommitted(S, o) ==
    IF o.raised
    THEN [S EXCEPT !.orders = SubSeq(@, 1, Len(@) - Len(S.processed)), !.raised = TRUE]
    ELSE [S EXCEPT !.orders = o.orders, !.raised = o.raised, !.order = o.order]

\* the state after create_order gave o
WithOrder(S, o) == [S EXCEPT !.orders = o.orders, !.raised = o.raised, !.order = o.order]

\* the call of create_order, with the ids r that insert_transaction returned
OrderFor(S, r, clock, req, m, u) ==
    create_order(S.orders, S.users, r.guests, clock, r.transaction_id, m, r.user_id, None,
                 CustomerName(req.customer_name), MerchantTotal(ItemsOf(req.cart_items, m)),
                 req.payment_method, req.is_guest_order, ItemsOf(req.cart_items, m), u)

AfterInsert(S, r, clock, req, m, u) ==
    IF r.raised THEN WithInsert(S, r)
    ELSE WithOrder(WithInsert(S, r), OrderFor(S, r, clock, req, m, u))

\* one iteration of the loop up to the order's commit: insert_transaction,
\* then create_order with the ids insert_transaction returned
PartitionDb(S, clock, req, m, u) ==
    IF PaymentMethodRaises(req.payment_method) THEN [S EXCEPT !.raised = TRUE]
    ELSE AfterInsert(S,
                     insert_transaction(S.reg, S.nh, S.store, S.guests, clock, m,
                         CheckoutArgs(req, ItemsOf(req.cart_items, m))),
                     clock, req, m, u)

\* processed_orders.append(...): the order id is the one generated in the loop
ProcessedOrder(req, m, u) ==
    [order_id |-> OrderId(m, u), merchant_id |-> m,
     amount |-> MerchantTotal(ItemsOf(req.cart_items, m)),
     items_count |-> Len(ItemsOf(req.cart_items, m))]

\* total_amount = sum(order["amount"] for order in processed_orders)
RECURSIVE SumProcessed(_)
SumProcessed(processed) ==
    IF processed = <<>> THEN Literal(0)
    ELSE FloatPlus(SumProcessed(SubSeq(processed, 1, Len(processed) - 1)),
              processed[Len(processed)].amount)

\* the OrderResponse built from processed_orders
CheckoutResponse(request, processed) ==
    HttpResponse("checkout", 200, request, processed[1].order_id,
                 SumProcessed(processed), Len(request.req.cart_items),
                 processed[1].merchant_id)

CheckoutError(request, status) ==
    HttpResponse("checkout", status, request, <<>>, Literal(0), 0, None)

\* the handler's locals while no request is in progress.  detached: the list
\* its for loop iterates is no longer the one in the dict.  began, ended,
\* listening and calls are history: the requests that had returned and the
\* merchants' connections when it began, its place among the requests that
\* returned, and its calls of send_to_merchant and send_to_user
NoTask ==
    [pc |-> "idle", suspended |-> FALSE, req |-> NoRequest.req, uss |-> <<>>, j |-> 1,
     i |-> 1, disconnected |-> <<>>, detached |-> FALSE, made |-> <<>>,
     processed |-> <<>>, raised |-> FALSE, order |-> NoOrder, response |-> NoHttp,
     began |-> {}, ended |-> 0, listening |-> <<>>, calls |-> <<>>]

----------------------------------------------------------------------------
(* process_checkout run stepwise: the handler runs from one await that
   suspends it to the next; the database calls are synchronous *)

\* a send that puts the message before the ones already received
SendText_Newest(inb, ws, message) == [inb EXCEPT ![ws] = <<message>> \o @]

\* websocket.send_text(json.dumps(message)) on an open websocket
SendText(inb, ws, message) == [inb EXCEPT ![ws] = Append(@, message)]

\* the state a running checkout works on: what it shares with the other
\* requests of the process, and its locals T
Running(T, reg, nh, st, gu, us, ords, mc, uc, inb, subs, cl, clock) ==
    T @@ [reg |-> reg, nh |-> nh, store |-> st, guests |-> gu, users |-> us, orders |-> ords,
          mc |-> mc, uc |-> uc, inbox |-> inb, subs |-> subs, cl |-> cl, clock |-> clock]

\* the merchant of the iteration the checkout is in
Key(R) == MerchantKeys(R.req.cart_items)[R.j]

Request(R) == [req |-> R.req, us |-> R.uss]

\* the except clause of process_checkout
Failed(R) == [R EXCEPT !.pc = "done", !.raised = TRUE,
                       !.response = CheckoutError(Request(R), 500)]

\* a call of send_to_merchant / send_to_user as the history keeps it: the
\* websockets it has called send_text on, those whose send_text raised, and
\* whether it has returned
SendCall(role, id) ==
    [role |-> role, id |-> id, attempted |-> <<>>, errored |-> <<>>, returned |-> FALSE]

\* send_text on ws entered in the call in progress
Logged(calls, ws, raised) ==
    [calls EXCEPT ![Len(calls)].attempted = Append(@, ws),
                  ![Len(calls)].errored = IF raised THEN Append(@, ws) ELSE @]

\* the call begins: "disconnected = []", and the for loop takes the list that
\* the dict holds for id
Call(R, at, role, id) ==
    [R EXCEPT !.pc = at, !.i = 1, !.disconnected = <<>>, !.detached = FALSE,
              !.calls = Append(@, SendCall(role, id))]

\* the call returns
Returned(R, next) ==
    [R EXCEPT !.pc = next, !.calls = [@ EXCEPT ![Len(@)].returned = TRUE]]

\* the state after the database calls of an iteration gave D
AfterPartitionDb(D) ==
    IF D.raised THEN Failed(D)
    ELSE Call([D EXCEPT !.made = Append(@, D.order)], "merchant", "merchant", Key(D))

\* the head of the loop over the merchants of the cart
AtDb(R) ==
    IF R.j > Len(MerchantKeys(R.req.cart_items))
    THEN [R EXCEPT !.pc = "done", !.response = CheckoutResponse(Request(R), R.processed)]
    ELSE AfterPartitionDb(PartitionDb(R, R.clock, R.req, Key(R), R.uss[R.j][2]))

\* a send loop that forgets the websockets whose send raised
SendOne_KeepFailed(R, ws) ==
    IF SendRaises(R.cl, ws)
    THEN [R EXCEPT !.i = @ + 1, !.calls = Logged(@, ws, TRUE)]
    ELSE [R EXCEPT !.inbox = SendText(@, ws, NewOrderMessage(Key(R), OrderData(R.order))),
                   !.i = @ + 1, !.suspended = TRUE, !.calls = Logged(@, ws, FALSE)]

\* one send_text: the handler is suspended in it when the websocket is open
SendOne(R, ws) ==
    IF SendRaises(R.cl, ws)
    THEN [R EXCEPT !.disconnected = Append(@, ws), !.i = @ + 1,
                   !.calls = Logged(@, ws, TRUE)]
    ELSE [R EXCEPT !.inbox = SendText(@, ws, NewOrderMessage(Key(R), OrderData(R.order))),
                   !.i = @ + 1, !.suspended = TRUE, !.calls = Logged(@, ws, FALSE)]

\* "for ws in disconnected: connections[id].remove(ws)", on the list the dict
\* holds for id now: connections[id] raises KeyError when the entry is gone,
\* and remove raises when the websocket is not in the list
EndLoop(R, role, conns, id, next) ==
    IF R.disconnected = <<>> THEN Returned(R, next)
    ELSE IF id \notin DOMAIN conns THEN Failed(R)
    ELSE LET removed == RemoveFrom(conns[id], R.disconnected)
             left == IF role = "merchant"
                     THEN [R EXCEPT !.mc = [conns EXCEPT ![id] = removed.list]]
                     ELSE [R EXCEPT !.uc = [conns EXCEPT ![id] = removed.list]]
         IN IF removed.raised THEN Failed(left) ELSE Returned(left, next)

\* the list object the for loop iterates.  "for websocket in connections[id]"
\* reads the dict once: while that list is in the dict the loop sees every
\* append to it and every remove from it; disconnect deletes the entry when
\* it has emptied the list, and what connect enters afterwards is a new list,
\* which the loop does not see.  With no entry for id the call sends nothing.
Iterated(R, conns, id) ==
    IF R.detached \/ id \notin DOMAIN conns THEN <<>> ELSE conns[id]

\* send_to_merchant / send_to_user at the head of its for loop: the list
\* iterator goes by position
LoopOver(R, role, conns, id, next) ==
    IF R.i > Len(Iterated(R, conns, id)) THEN EndLoop(R, role, conns, id, next)
    ELSE SendOne(R, Iterated(R, conns, id)[R.i])

AtLoop(R, role) ==
    IF role = "merchant" THEN LoopOver(R, role, R.mc, Key(R), "user_check")
    ELSE LoopOver(R, role, R.uc, R.order.user_id, "push")

\* the handler from where it is to its next position
Step(R) ==
    CASE R.pc = "db" -> AtDb(R)
      [] R.pc = "merchant" -> AtLoop(R, "merchant")
      [] R.pc = "user_check" ->
            IF NamesUser(OrderData(R.order))
            THEN Call(R, "user", "user", R.order.user_id)
            ELSE [R EXCEPT !.pc = "push"]
      [] R.pc = "user" -> AtLoop(R, "user")
      [] R.pc = "push" ->
            IF Key(R) \in R.subs THEN [R EXCEPT !.pc = "append", !.suspended = TRUE]
            ELSE [R EXCEPT !.pc = "append"]
      [] R.pc = "append" ->
            [R EXCEPT !.processed = Append(@, ProcessedOrder(R.req, Key(R), R.uss[R.j][1])),
                      !.j = @ + 1, !.pc = "db"]

\* the handler runs until an await suspends it or it returns
RECURSIVE Run(_)
Continue(n) == IF n.suspended \/ n.pc = "done" THEN n ELSE Run(n)

Run(R) == Continue(Step(R))

\* process_checkout from its first line; R.uss = the uuids drawn, a pair for
\* each merchant of the cart: the one of the loop and the one of create_order
process_checkout(R) ==
    IF R.req.cart_items = <<>>
    THEN [R EXCEPT !.pc = "done",
                   !.response = CheckoutError(Request(R), ExceptException(400))]
    ELSE Run(R)

----------------------------------------------------------------------------
(* The outcome of a call, as the caller sees it *)

NoArgs == Args(None, Literal(0), PAYED, NullText, NullText, None, FALSE)
NoParams == [days |-> 0, limit |-> 0, offset |-> 0]

MkRet(op, p, m, a, params, raised, handle, txid, uid, rows, stats) ==
    [op |-> op, proc |-> p, merchant_id |-> m, args |-> a, params |-> params,
     raised |-> raised, handle |-> handle, transaction_id |-> txid,
     user_id |-> uid, rows |-> rows, stats |-> stats, path |-> ""]

NoRet == MkRet("none", "A", None, NoArgs, NoParams, FALSE, None, None, None, <<>>,
               ZeroAnalytics)

Idle(p) == pc[p] = "idle"

----------------------------------------------------------------------------
(* Calls that run without interruption *)

\* register_merchant's call (auth.py) of create_merchant_transaction_table
EnsureTable(p, m) ==
    /\ Idle(p)
    /\ LET t == create_merchant_transaction_table(registry[p], nextHandle[p], store, m) IN
        /\ registry' = [registry EXCEPT ![p] = t.reg]
        /\ nextHandle' = [nextHandle EXCEPT ![p] = t.nh]
        /\ store' = t.store
        /\ ret' = [MkRet("create", p, m, NoArgs, NoParams, t.raised, t.handle, None,
                         None, <<>>, ZeroAnalytics) EXCEPT !.path = t.path]
    /\ UNCHANGED <<guest_users, now, tz, tables, market, http, pc, loc>>

\* the effect of one insert_transaction call on the state, reported as op
ApplyInsert(op, p, m, a) ==
    LET r == insert_transaction(registry[p], nextHandle[p], store, guest_users, now, m, a) IN
    /\ registry' = [registry EXCEPT ![p] = r.reg]
    /\ nextHandle' = [nextHandle EXCEPT ![p] = r.nh]
    /\ store' = r.store
    /\ guest_users' = r.guests
    /\ ret' = MkRet(op, p, m, a, NoParams, r.raised,
                    get_merchant_transaction_table(r.reg, m),
                    r.transaction_id, r.user_id, <<>>, ZeroAnalytics)

\* insert_transaction called directly (admin data population, scripts)
InsertTransaction(p, m, a) ==
    /\ Idle(p)
    /\ TotalRows(store) < MaxRows
    /\ ApplyInsert("insert", p, m, a)
    /\ UNCHANGED <<now, tz, tables, market, http, pc, loc>>

\* the checks create_transaction makes before it calls insert_transaction
CreateTransactionRejects(a) ==
    \/ a.user_id = None /\ ~a.is_guest_transaction
    \/ a.is_guest_transaction /\ a.type = PAY_LATER

\* the status create_transaction answers with: its own HTTPException(400) is
\* raised inside the try block, like any error of insert_transaction
CreateTransactionResponse(m, rejected, raised) ==
    HttpResponse("create_transaction",
                 IF rejected THEN ExceptException(400)
                 ELSE IF raised THEN 500 ELSE 200,
                 NoRequest, <<>>, Literal(0), 0, m)

\* amount: float = Field(..., gt=0)
IsPositive(amount) == amount.near > 0 \/ (amount.near = 0 /\ amount.ulps > 0)

\* POST /transactions/create for the authenticated merchant m
CreateTransaction(p, m, a) ==
    /\ Idle(p)
    /\ TotalRows(store) < MaxRows
    /\ IsPositive(a.amount)
    /\ a.timestamp = None
    /\ IF CreateTransactionRejects(a)
       THEN /\ ret' = MkRet("create_transaction", p, m, a, NoParams, TRUE, None, None,
                            None, <<>>, ZeroAnalytics)
            /\ UNCHANGED <<registry, nextHandle, store, guest_users>>
       ELSE ApplyInsert("create_transaction", p, m, a)
    /\ http' = CreateTransactionResponse(m, CreateTransactionRejects(a), ret'.raised)
    /\ UNCHANGED <<now, tz, tables, market, pc, loc>>

\* a new lifetime of process p: empty metadata, then startup_event
Startup(p) ==
    /\ Idle(p)
    /\ \E table_names \in Orders(MatchingTables(store)) :
         LET r == load_existing_transaction_tables(<<>>, 1, store, table_names) IN
         /\ registry' = [registry EXCEPT ![p] = r.reg]
         /\ nextHandle' = [nextHandle EXCEPT ![p] = r.nh]
         /\ store' = r.store
    /\ ret' = MkRet("startup", p, None, NoArgs, NoParams, FALSE, None, None, None, <<>>,
                    ZeroAnalytics)
    /\ UNCHANGED <<guest_users, now, tz, tables, market, http, pc, loc>>

ListTransactions(p, m, limit, offset) ==
    /\ Idle(p)
    /\ \E rows \in get_merchant_transactions(registry[p], store, m, limit, offset) :
         ret' = MkRet("list", p, m, NoArgs, [days |-> 0, limit |-> limit, offset |-> offset],
                      FALSE, None, None, None, rows, ZeroAnalytics)
    /\ UNCHANGED <<store, guest_users, registry, nextHandle, now, tz, tables, market, http, pc, loc>>

ListByPeriod(p, m, days, limit, offset) ==
    /\ Idle(p)
    /\ \E rows \in get_merchant_transactions_by_period(
                       registry[p], store, now, tz, m, days, limit, offset) :
         ret' = MkRet("list_by_period", p, m, NoArgs,
                      [days |-> days, limit |-> limit, offset |-> offset],
                      FALSE, None, None, None, rows, ZeroAnalytics)
    /\ UNCHANGED <<store, guest_users, registry, nextHandle, now, tz, tables, market, http, pc, loc>>

Analytics(p, m, days) ==
    /\ Idle(p)
    /\ LET stats == get_merchant_transaction_analytics(registry[p], store, now, m, days) IN
         ret' = MkRet("analytics", p, m, NoArgs, [days |-> days, limit |-> 0, offset |-> 0],
                      stats.raised, None, None, None, <<>>, stats)
    /\ UNCHANGED <<store, guest_users, registry, nextHandle, now, tz, tables, market, http, pc, loc>>

\* time passes
Tick ==
    /\ now < MaxTime
    /\ now' = now + 1
    /\ UNCHANGED <<store, guest_users, registry, nextHandle, tz, tables, market, http, ret, pc, loc>>

----------------------------------------------------------------------------
(* The ledger write path, one process, calls run one after another *)

NoLoc == [op |-> "none", merchant_id |-> None, args |-> NoArgs, handle |-> None,
          user_id |-> None]

InitProcesses ==
    /\ registry = [p \in Procs |-> <<>>]
    /\ nextHandle = [p \in Procs |-> 1]
    /\ pc = [p \in Procs |-> "idle"]
    /\ loc = [p \in Procs |-> NoLoc]
    /\ ret = NoRet
    /\ orders = <<>>
    /\ merchant_connections = <<>>
    /\ user_connections = <<>>
    /\ inbox = [ws \in WebSockets |-> <<>>]
    /\ closed = {}
    /\ tasks = [t \in Requests |-> NoTask]
    /\ sessions = SessionsOf(merchant_connections, user_connections)
    /\ subscriptions = {}
    /\ http = NoHttp
    /\ users = Users
    /\ inventory_items = <<>>
    /\ purchase_list_items = <<>>
    /\ inventory_transactions = <<>>
    /\ response = [handler |-> "none", status |-> 0, merchant_id |-> 0, item_id |-> 0,
                  request |-> [body |-> 0], row |-> 0]

\* an empty database and freshly started processes
Init ==
    /\ store = <<>>
    /\ guest_users = <<>>
    /\ now = 1
    /\ tz = 0
    /\ InitProcesses

\* the calls made in this specification: a registered user or none, a guest
\* or not, either type
WriteArgs ==
    {Args(u, Literal(amt), ty, NullText, NullText, None, g) :
        u \in {None, 2}, amt \in {20, 25}, ty \in TransactionType, g \in BOOLEAN}

Next ==
    \/ \E m \in Merchants, a \in WriteArgs : InsertTransaction("A", m, a)
    \/ \E m \in Merchants, a \in WriteArgs : CreateTransaction("A", m, a)

Spec == Init /\ [][Next]_vars

----------------------------------------------------------------------------
(* Claims about the write path *)

AllRows(st) == UNION {Range(st[name]) : name \in DOMAIN st}
GuestIdsOf(gu, m) == {i \in 1..Len(gu) : gu[i] = m}
IsInsertRet(r) == r.op \in {"insert", "create_transaction"}

\* C1: in every ledger row, guest_user_id is set exactly when the row was
\* inserted with is_guest_transaction=true, and then it equals user_id, which
\* is the id of the table's merchant's guest identity whatever user_id the
\* caller passed.
C1_GuestColumnIffGuestInsert ==
    /\ \A name \in DOMAIN store : \A i \in 1..Len(store[name]) :
         LET r == store[name][i] IN
         /\ (r.guest_user_id # None) <=> r.by_guest_insert
         /\ r.guest_user_id # None =>
              /\ r.guest_user_id = r.user_id
              /\ r.user_id \in 1..Len(guest_users)
              /\ TableName(guest_users[r.user_id]) = name
    /\ (IsInsertRet(ret) /\ ~ret.raised /\ ret.args.is_guest_transaction) =>
         ret.user_id = FindGuest(guest_users, ret.merchant_id)

\* a guest insert whose caller passed user_id 2 was stored under guest id 1,
\* beside a row of the registered user 2
C1_Witness ==
    /\ ret.op = "insert" /\ ~ret.raised
    /\ ret.args.is_guest_transaction /\ ret.args.user_id = 2 /\ ret.user_id = 1
    /\ \E r \in AllRows(store) : r.guest_user_id = 1 /\ r.user_id = 1
    /\ \E r \in AllRows(store) : r.guest_user_id = None /\ r.user_id = 2

\* C2: insert_transaction refuses a guest PAY_LATER call, so that no ledger
\* row with guest_user_id set has type PAY_LATER.
C2_GuestNeverPayLater ==
    /\ (ret.op = "insert" /\ ret.args.is_guest_transaction /\ ret.args.type = PAY_LATER)
         => ret.raised
    /\ \A r \in AllRows(store) : r.guest_user_id # None => r.type # PAY_LATER

\* C3: guest PAYED inserts for a merchant all succeed and resolve to the one
\* guest identity of that merchant: at most one identity row per merchant,
\* every guest row carries its id, and so does the pair the call returns.
C3_OneSharedGuestIdentity ==
    /\ \A m \in Merchants : Cardinality(GuestIdsOf(guest_users, m)) <= 1
    /\ \A m \in Merchants : \A i \in 1..Len(RowsOf(store, m)) :
         RowsOf(store, m)[i].by_guest_insert =>
            GuestIdsOf(guest_users, m) = {RowsOf(store, m)[i].user_id}
    /\ (IsInsertRet(ret) /\ ret.args.is_guest_transaction /\ ret.args.type = PAYED) =>
         /\ ~ret.raised
         /\ GuestIdsOf(guest_users, ret.merchant_id) = {ret.user_id}
         /\ \E i \in 1..Len(RowsOf(store, ret.merchant_id)) :
               /\ RowsOf(store, ret.merchant_id)[i].transaction_id = ret.transaction_id
               /\ RowsOf(store, ret.merchant_id)[i].user_id = ret.user_id

\* the second guest insert of one merchant has returned the identity the first
\* one created
C3_Witness ==
    /\ IsInsertRet(ret) /\ ret.args.is_guest_transaction /\ ~ret.raised
    /\ ret.transaction_id = 2
    /\ \A i \in 1..2 : RowsOf(store, ret.merchant_id)[i].by_guest_insert
    /\ Cardinality(GuestIdsOf(guest_users, ret.merchant_id)) = 1

\* a step in which a call has inserted a ledger row
InsertStep == TotalRows(store') = TotalRows(store) + 1

\* C10: after an insert of a two-decimal amount with no description, every
\* result get_merchant_transactions may return for that merchant holds exactly
\* one row with the returned transaction_id; it has the returned user_id, the
\* inserted amount and type and a null description; and every row that was
\* there before the insert is returned unchanged.
C10_RoundTrip ==
    [][(InsertStep /\ IsInsertRet(ret') /\ ret'.args.amount.near % 10 = 0
          /\ ret'.args.description = NullText) =>
        \A res \in get_merchant_transactions(registry'[ret'.proc], store',
                                             ret'.merchant_id, DefaultLimit, 0) :
          /\ \E i \in 1..Len(res) :
               /\ res[i].transaction_id = ret'.transaction_id
               /\ res[i].user_id = ret'.user_id
               /\ Literal(res[i].amount) = ret'.args.amount
               /\ res[i].type = ret'.args.type
               /\ res[i].description = NullText
               /\ \A j \in 1..Len(res) :
                    res[j].transaction_id = ret'.transaction_id => j = i
          /\ \A old \in Range(RowsOf(store, ret'.merchant_id)) : old \in Range(res)
      ]_vars

\* a two-decimal amount was inserted into a table that already held a row, and
\* an amount with a third decimal was stored rounded
C10_Witness ==
    /\ IsInsertRet(ret) /\ ~ret.raised /\ ret.args.amount = Literal(20)
    /\ ret.transaction_id = 2
    /\ \E r \in Range(RowsOf(store, ret.merchant_id)) :
          r.transaction_id = 1 /\ r.amount = 30

----------------------------------------------------------------------------
(* Reads and analytics over a ledger that grows while time passes *)

MaxReadRows == 3  \* ledger rows in the store while the analytics are read

\* three sales of 0.10 have the mean 0.1, and 0.1 * 3 is not 0.3 as floats
\* multiply; 0.05, 0.05 and 0.10 have a mean of endless digits
ReadArgs ==
    {Args(1, Literal(50), PAY_LATER, NullText, NullText, None, FALSE),
     Args(1, Literal(100), PAYED, NullText, NullText, None, FALSE)}

\* the sales recorded: either amount in merchant 1's ledger, and sales of 0.10
\* in merchant 12's
ReadWrites == {<<m, a>> \in Merchants \X ReadArgs : m = 1 \/ a.type = PAYED}

\* the periods the claims range over
Days == {1, 2}

\* insert_transaction called directly, while the store has room
RecordSale(p, m, a) ==
    /\ Idle(p)
    /\ TotalRows(store) < MaxReadRows
    /\ ApplyInsert("insert", p, m, a)
    /\ UNCHANGED <<now, tz, tables, market, http, pc, loc>>

NextRead ==
    \/ \E w \in ReadWrites : RecordSale("A", w[1], w[2])
    \/ \E m \in Merchants, days \in Days : Analytics("A", m, days)
    \/ Tick

SpecRead == Init /\ [][NextRead]_vars

----------------------------------------------------------------------------
(* Reads of ledgers that do not exist yet or are still empty *)

InitEmpty ==
    /\ store = <<>>
    /\ guest_users = <<>>
    /\ now = 1
    /\ tz \in TzOffsets
    /\ InitProcesses

EmptyArgs == {Args(1, Literal(10), PAYED, NullText, NullText, None, FALSE)}

NextEmpty ==
    \/ \E m \in Merchants : EnsureTable("A", m)
    \/ \E m \in Merchants, a \in EmptyArgs : InsertTransaction("A", m, a)
    \/ \E m \in Merchants : ListTransactions("A", m, DefaultLimit, 0)
    \/ \E m \in Merchants, days \in Days : ListByPeriod("A", m, days, DefaultLimit, 0)
    \/ \E m \in Merchants, days \in Days : Analytics("A", m, days)
    \/ Tick

SpecEmpty == InitEmpty /\ [][NextEmpty]_vars

IsReadRet(r) == r.op \in {"list", "list_by_period", "analytics"}

\* C8: for a merchant with no ledger table or with an empty one, both list
\* functions return the empty sequence and analytics returns four zeros, no
\* call raises, and a read creates no table and no registry entry.
C8_EmptyLedgerReads ==
    /\ [](\A m \in Merchants : RowsOf(store, m) = <<>> =>
            /\ get_merchant_transactions(registry["A"], store, m, DefaultLimit, 0) = {<<>>}
            /\ \A days \in Days :
                 /\ get_merchant_transactions_by_period(
                        registry["A"], store, now, tz, m, days, DefaultLimit, 0) = {<<>>}
                 /\ LET s == get_merchant_transaction_analytics(
                                 registry["A"], store, now, m, days) IN
                      /\ ~s.raised
                      /\ s.total_sales = Ratio(0, 1) /\ s.total_transactions = 0
                      /\ s.total_pending = Ratio(0, 1)
                      /\ s.avg_transaction = Signed(Zero, FALSE))
    /\ []((IsReadRet(ret) /\ RowsOf(store, ret.merchant_id) = <<>>) =>
            ~ret.raised /\ ret.rows = <<>> /\ ret.stats = ZeroAnalytics)
    /\ [][IsReadRet(ret') /\ ret' # ret => store' = store /\ registry' = registry]_vars

\* analytics has answered for a merchant whose table exists and is empty, while
\* the other merchant has no table at all
C8_Witness ==
    /\ ret.op = "analytics" /\ ~ret.raised
    /\ TableName(ret.merchant_id) \in DOMAIN store
    /\ store[TableName(ret.merchant_id)] = <<>>
    /\ \E m \in Merchants : TableName(m) \notin DOMAIN store

\* the reference: sums over the indexes of the rows in the window
RECURSIVE SumAt(_, _)
SumAt(rows, I) ==
    IF I = {} THEN 0
    ELSE LET i == CHOOSE x \in I : TRUE IN rows[i].amount + SumAt(rows, I \ {i})

WindowOf(rows, clock, days) ==
    {i \in 1..Len(rows) : rows[i].timestamp >= clock - days * DayTicks}

\* the totals and the count of analytics s against the reference over the
\* rows in the window W
TotalsMatch(s, rows, W) ==
    /\ ~s.raised
    /\ s.total_sales.den = 1 /\ s.total_pending.den = 1
    /\ s.total_sales.num = SumAt(rows, {i \in W : rows[i].type = PAYED})
    /\ s.total_pending.num = SumAt(rows, {i \in W : rows[i].type = PAY_LATER})
    /\ s.total_transactions = Cardinality(W)

\* avg * count == sum, as floats multiply and compare (sum >= 0 thousandths)
ProductIsSum(avg, count, sum) ==
    ~avg.neg /\ DoubleTimes([m |-> avg.m, e |-> avg.e], count) = DoubleOfDecimal(sum)

\* |avg * count - sum| <= sum / 10^15, in exact arithmetic (sum >= 0
\* thousandths): both sides are written over the exponent of avg
WithinRounding(avg, count, sum) ==
    LET e == IF avg.e < 0 THEN avg.e ELSE 0
        a == ShiftLeft(MulSmall(MulSmall(avg.m, count), 1000), avg.e - e)
        b == ShiftLeft(Limbs(sum), 0 - e)
        d == IF CmpN(a, b) >= 0 THEN SubN(a, b) ELSE SubN(b, a)
    IN ~avg.neg /\ CmpN(TimesPow10(d, 15), b) <= 0

\* C9: analytics over N days equals the reference over the rows whose timestamp
\* is at or after now - N days: total_sales sums the PAYED amounts,
\* total_pending the PAY_LATER amounts, total_transactions counts the rows, and
\* avg_transaction times total_transactions is the sum of all their amounts.
C9_AnalyticsMatchesReference ==
    \A m \in Merchants, days \in Days :
      get_merchant_transaction_table(registry["A"], m) # None =>
        LET rows == RowsOf(store, m)
            W == WindowOf(rows, now, days)
            s == get_merchant_transaction_analytics(registry["A"], store, now, m, days)
        IN /\ TotalsMatch(s, rows, W)
           /\ ProductIsSum(s.avg_transaction, s.total_transactions, SumAt(rows, W))

\* C9, as amended: the totals and the count equal the reference over the rows
\* whose timestamp is at or after now - N days, and avg_transaction is their
\* mean as a double: avg_transaction times total_transactions is within one
\* part in 10^15 of the sum of their amounts, and is that sum, as floats
\* multiply, when the window holds at most two rows.
C9_AverageWithinRounding ==
    \A m \in Merchants, days \in Days :
      get_merchant_transaction_table(registry["A"], m) # None =>
        LET rows == RowsOf(store, m)
            W == WindowOf(rows, now, days)
            s == get_merchant_transaction_analytics(registry["A"], store, now, m, days)
        IN /\ TotalsMatch(s, rows, W)
           /\ WithinRounding(s.avg_transaction, s.total_transactions, SumAt(rows, W))
           /\ Cardinality(W) <= 2 =>
                 ProductIsSum(s.avg_transaction, s.total_transactions, SumAt(rows, W))

\* analytics has answered over three rows, the oldest of them exactly at the
\* boundary, whose mean 0.2 / 3 has endless digits
C9_Witness ==
    /\ ret.op = "analytics" /\ ret.stats.total_transactions = 3
    /\ LET rows == RowsOf(store, ret.merchant_id) IN
         /\ rows[1].timestamp = now - ret.params.days * DayTicks
         /\ SumAmount(rows) = 200

\* analytics has counted two rows, one of them exactly at the boundary, and
\* left out an older one
OlderRowLeftOut ==
    /\ ret.op = "analytics" /\ ret.stats.total_transactions = 2
    /\ LET rows == RowsOf(store, ret.merchant_id) IN
         /\ Len(rows) = 3
         /\ rows[1].timestamp < now - ret.params.days * DayTicks
         /\ rows[2].timestamp = now - ret.params.days * DayTicks

----------------------------------------------------------------------------
(* The registry over process lifetimes *)

\* tables in the schema that match the pattern and are no merchant's ledger:
\* transaction_1x and transactions, whose suffix is no integer, and the
\* quoted identifier whose suffix is a plus sign, an Arabic-Indic two and a
\* carriage return, which int() reads as 2
ForeignNames == {Prefix \o <<"1", "x">>, <<Stem, "s">>}
SignedNames == {Prefix \o <<"+", "U+0662", "\r">>}
MaxForeign == 2     \* such tables in one schema

InitRegistry ==
    /\ \E F \in SUBSET (ForeignNames \cup SignedNames) :
         Cardinality(F) <= MaxForeign /\ store = [n \in F |-> <<>>]
    /\ guest_users = <<>>
    /\ now = 1
    /\ tz = 0
    /\ InitProcesses

NextRegistry ==
    \/ \E m \in Merchants : EnsureTable("A", m)
    \/ \E m \in Merchants, a \in EmptyArgs : InsertTransaction("A", m, a)
    \/ Startup("A")

SpecRegistry == InitRegistry /\ [][NextRegistry]_vars

\* C5: create_merchant_transaction_table called again for the same merchant in
\* the same process returns the handle the call before it returned, does not
\* raise, and changes neither the registry nor any table of the store; the
\* handle returned is the registry's one entry for transaction_<M>, and that
\* table exists.
C5_EnsureTableIdempotent ==
    /\ [](ret.op = "create" =>
            /\ TableName(ret.merchant_id) \in DOMAIN registry[ret.proc]
            /\ registry[ret.proc][TableName(ret.merchant_id)] = ret.handle
            /\ TableName(ret.merchant_id) \in DOMAIN store)
    /\ [][(/\ ret.op = "create" /\ ret'.op = "create"
           /\ ret'.merchant_id = ret.merchant_id /\ ret'.proc = ret.proc) =>
          (/\ ret'.handle = ret.handle
           /\ ~ret'.raised
           /\ registry' = registry
           /\ store' = store)]_vars

\* the call was repeated for a merchant whose table holds a row
C5_Witness ==
    /\ ret.op = "create" /\ ret.path = "cached" /\ ~ret.raised
    /\ RowsOf(store, ret.merchant_id) # <<>>

\* C7: after startup the registry has a handle for every store table named
\* transaction_<integer>, so list and analytics return the rows persisted
\* before; a matching table whose suffix is no integer gets no handle and does
\* not stop the others from being loaded; startup changes no existing row.
C7_StartupLoadsExistingTables ==
    /\ [](ret.op = "startup" =>
            /\ \A name \in DOMAIN store :
                 IF MatchesPattern(name) /\ ParsesAsInt(StripPrefix(name))
                 THEN TableName(ParseInt(StripPrefix(name))) \in DOMAIN registry[ret.proc]
                 ELSE name \notin DOMAIN registry[ret.proc]
            /\ \A m \in Merchants : TableName(m) \in DOMAIN store =>
                 /\ \A res \in get_merchant_transactions(
                                   registry[ret.proc], store, m, DefaultLimit, 0) :
                       Range(res) = Range(store[TableName(m)])
                 /\ get_merchant_transaction_analytics(
                        registry[ret.proc], store, now, m, DefaultDays).total_transactions
                      = Len(store[TableName(m)]))
    /\ [][ret'.op = "startup" =>
            \A name \in DOMAIN store :
                name \in DOMAIN store' /\ store'[name] = store[name]]_vars

\* a restarted process has found a ledger with a row beside a table whose
\* suffix is no integer
C7_Witness ==
    /\ ret.op = "startup"
    /\ \E name \in DOMAIN store : name \in ForeignNames
    /\ \E m \in Merchants :
         /\ RowsOf(store, m) # <<>>
         /\ get_merchant_transaction_table(registry[ret.proc], m) # None

----------------------------------------------------------------------------
(* Calls run step by step: each database round trip is a step, and the      *)
(* steps of calls in different processes interleave                          *)

SetRet(op, p, m, a, raised, handle, txid, uid, path) ==
    ret' = [MkRet(op, p, m, a, NoParams, raised, handle, txid, uid, <<>>, ZeroAnalytics)
              EXCEPT !.path = path]

\* where insert_transaction goes on once it holds its table: the timestamp
\* is fixed, then a guest call looks up the guest identity
AfterTable(p, l) ==
    /\ pc' = [pc EXCEPT ![p] = IF l.args.is_guest_transaction
                               THEN "guest_lookup" ELSE "insert_row"]
    /\ loc' = [loc EXCEPT ![p] =
                 [l EXCEPT !.args.timestamp = ResolveTimestamp(l.args.timestamp, now),
                           !.user_id = l.args.user_id]]

\* create_merchant_transaction_table up to the Table object: the registry
\* check, and the new object entered in metadata
T_Begin(op, p, m, a) ==
    /\ Idle(p)
    /\ LET name == TableName(m) IN
       IF IsRegistered(registry[p], name)
       THEN /\ IF op = "create"
               THEN /\ SetRet("create", p, m, NoArgs, FALSE, registry[p][name], None, None,
                              "cached")
                    /\ UNCHANGED <<pc, loc>>
               ELSE /\ AfterTable(p, [op |-> op, merchant_id |-> m, args |-> a,
                                      handle |-> registry[p][name], user_id |-> None])
                    /\ UNCHANGED ret
            /\ UNCHANGED <<registry, nextHandle>>
       ELSE /\ registry' = [registry EXCEPT ![p] = RegisterTable(@, nextHandle[p], name)]
            /\ nextHandle' = [nextHandle EXCEPT ![p] = @ + 1]
            /\ pc' = [pc EXCEPT ![p] = "checkfirst"]
            /\ loc' = [loc EXCEPT ![p] = [op |-> op, merchant_id |-> m, args |-> a,
                                          handle |-> nextHandle[p], user_id |-> None]]
            /\ UNCHANGED ret
    /\ UNCHANGED <<store, guest_users, now, tz, tables, market, http>>

\* the table is in hand: create_merchant_transaction_table returns, or
\* insert_transaction goes on
TableDone(p, path) ==
    IF loc[p].op = "create"
    THEN /\ SetRet("create", p, loc[p].merchant_id, NoArgs, FALSE, loc[p].handle, None,
                   None, path)
         /\ pc' = [pc EXCEPT ![p] = "idle"]
         /\ loc' = [loc EXCEPT ![p] = NoLoc]
    ELSE /\ AfterTable(p, loc[p])
         /\ UNCHANGED ret

\* Table.create(engine, checkfirst=True), first half: does the table exist?
T_CheckFirst(p) ==
    /\ pc[p] = "checkfirst"
    /\ IF HasTable(store, TableName(loc[p].merchant_id))
       THEN TableDone(p, "existed")
       ELSE /\ pc' = [pc EXCEPT ![p] = "create"]
            /\ UNCHANGED <<loc, ret>>
    /\ UNCHANGED <<store, guest_users, registry, nextHandle, now, tz, tables, market, http>>

\* Table.create, second half: CREATE TABLE.  An error leaves the call, and
\* the caller of the call, with an exception.
T_Create(p) ==
    /\ pc[p] = "create"
    /\ LET name == TableName(loc[p].merchant_id) IN
       IF CreateRaises(store, name)
       THEN /\ SetRet(loc[p].op, p, loc[p].merchant_id, loc[p].args, TRUE, None, None,
                      None, "create_table")
            /\ pc' = [pc EXCEPT ![p] = "idle"]
            /\ loc' = [loc EXCEPT ![p] = NoLoc]
            /\ UNCHANGED store
       ELSE /\ store' = CreateTableDDL(store, name)
            /\ TableDone(p, "created")
    /\ UNCHANGED <<guest_users, registry, nextHandle, now, tz, tables, market, http>>

\* get_or_create_guest_user, the query
I_GuestLookup(p) ==
    /\ pc[p] = "guest_lookup"
    /\ LET found == FindGuest(guest_users, loc[p].merchant_id) IN
       IF found # None
       THEN /\ pc' = [pc EXCEPT ![p] = "insert_row"]
            /\ loc' = [loc EXCEPT ![p].user_id = found]
       ELSE /\ pc' = [pc EXCEPT ![p] = "guest_create"]
            /\ UNCHANGED loc
    /\ UNCHANGED <<store, guest_users, registry, nextHandle, now, tz, tables, market, http, ret>>

\* get_or_create_guest_user, the commit of the new identity row
I_GuestCreate(p) ==
    /\ pc[p] = "guest_create"
    /\ IF GuestInsertRaises(guest_users, loc[p].merchant_id)
       THEN /\ SetRet(loc[p].op, p, loc[p].merchant_id, loc[p].args, TRUE, None, None,
                      None, "guest_create")
            /\ pc' = [pc EXCEPT ![p] = "idle"]
            /\ loc' = [loc EXCEPT ![p] = NoLoc]
            /\ guest_users' = RefusedGuest(guest_users)
       ELSE /\ guest_users' = InsertGuest(guest_users, loc[p].merchant_id)
            /\ pc' = [pc EXCEPT ![p] = "insert_row"]
            /\ loc' = [loc EXCEPT ![p].user_id = Len(guest_users) + 1]
            /\ UNCHANGED ret
    /\ UNCHANGED <<store, registry, nextHandle, now, tz, tables, market, http>>

\* the insert of the ledger row, and the return
I_InsertRow(p) ==
    /\ pc[p] = "insert_row"
    /\ LET name == TableName(loc[p].merchant_id)
           row == NewRow(store[name], loc[p].user_id, loc[p].args, now)
       IN /\ store' = InsertRow(store, name, row)
          /\ SetRet(loc[p].op, p, loc[p].merchant_id, loc[p].args, FALSE, loc[p].handle,
                    row.transaction_id, loc[p].user_id, "inserted")
    /\ pc' = [pc EXCEPT ![p] = "idle"]
    /\ loc' = [loc EXCEPT ![p] = NoLoc]
    /\ UNCHANGED <<guest_users, registry, nextHandle, now, tz, tables, market, http>>

\* the answer of the route create_guest_user: the exception of the handler
\* is answered with 500
GuestUserAnswer(p, m, r) ==
    /\ ret' = MkRet("create_guest_user", p, m, NoArgs, NoParams, r.raised, None, None,
                    r.id, <<>>, ZeroAnalytics)
    /\ http' = HttpResponse("create_guest_user", IF r.raised THEN 500 ELSE 200,
                            NoRequest, <<>>, Literal(0), 0, m)

\* the inserts of the route that have passed their query and not yet committed
RouteInserts == Cardinality({q \in Procs : pc[q] = "route_create"})

\* POST /transactions/guest-user for the authenticated merchant m, the query:
\* an identity that exists is answered at once, and the answer raises
CreateGuestUser(p, m) ==
    /\ Idle(p)
    /\ LET found == FindGuest(guest_users, m) IN
       IF found # None
       THEN /\ GuestUserAnswer(p, m, create_guest_user(guest_users, m))
            /\ UNCHANGED <<pc, loc>>
       ELSE /\ Len(guest_users) + RouteInserts < MaxGuestIds
            /\ pc' = [pc EXCEPT ![p] = "route_create"]
            /\ loc' = [loc EXCEPT ![p] = [NoLoc EXCEPT !.op = "create_guest_user",
                                                       !.merchant_id = m]]
            /\ UNCHANGED <<ret, http>>
    /\ UNCHANGED <<store, guest_users, registry, nextHandle, now, tz, tables, market>>

\* the route's db.add(guest_user); db.commit(): the row has no transaction_id
\* and the commit is refused, whatever was committed since the query
CreateGuestUserCommit(p) ==
    /\ pc[p] = "route_create"
    /\ guest_users' = RefusedGuest(guest_users)
    /\ GuestUserAnswer(p, loc[p].merchant_id,
                       [id |-> None, guests |-> guest_users', raised |-> TRUE])
    /\ pc' = [pc EXCEPT ![p] = "idle"]
    /\ loc' = [loc EXCEPT ![p] = NoLoc]
    /\ UNCHANGED <<store, registry, nextHandle, now, tz, tables, market>>

----------------------------------------------------------------------------
(* Two processes race to create one merchant's table *)

\* a call of create_merchant_transaction_table begins
C_Begin(p, m) == T_Begin("create", p, m, NoArgs)

NextTableRace ==
    \/ \E p \in Procs, m \in Merchants : C_Begin(p, m)
    \/ \E p \in Procs : T_CheckFirst(p)
    \/ \E p \in Procs : T_Create(p)

SpecTableRace == Init /\ [][NextTableRace]_vars

\* C6: when two processes that hold no handle for M call
\* create_merchant_transaction_table(M) concurrently while the table does not
\* exist, neither call raises.
C6_CreateRaceNeverRaises == ret.op = "create" => ~ret.raised

----------------------------------------------------------------------------
(* Guest inserts of two processes interleave *)

GuestRaceArgs == {Args(None, Literal(20), PAYED, NullText, NullText, None, g) : g \in BOOLEAN}

\* a call of insert_transaction begins, while the ledgers have room
I_Begin(p, m, a) == TotalRows(store) < MaxRows /\ T_Begin("insert", p, m, a)

NextGuestRace ==
    \/ \E p \in Procs, m \in Merchants, a \in GuestRaceArgs : I_Begin(p, m, a)
    \/ \E p \in Procs : T_CheckFirst(p)
    \/ \E p \in Procs : T_Create(p)
    \/ \E p \in Procs : I_GuestLookup(p)
    \/ \E p \in Procs : I_GuestCreate(p)
    \/ \E p \in Procs : I_InsertRow(p)
    \/ \E p \in Procs, m \in Merchants : CreateGuestUser(p, m)
    \/ \E p \in Procs : CreateGuestUserCommit(p)

SpecGuestRace == Init /\ [][NextGuestRace]_vars

\* C4: however concurrent guest inserts for one merchant interleave, a
\* merchant never has more than one guest identity row.
C4_AtMostOneGuestIdentity ==
    \A m \in Merchants : Cardinality(GuestIdsOf(guest_users, m)) <= 1

\* two inserts looked up the same merchant's identity before either had
\* committed one; one has committed it and the other's commit was refused
C4_Witness ==
    /\ ret.op = "insert" /\ ret.raised /\ ret.path = "guest_create"
    /\ Cardinality(GuestIdsOf(guest_users, ret.merchant_id)) = 1
    /\ \E p \in Procs : pc[p] = "insert_row" /\ loc[p].merchant_id = ret.merchant_id
                        /\ loc[p].args.is_guest_transaction

----------------------------------------------------------------------------
(* The marketplace, requests served one after another by process A *)

\* a client opens /ws/orders/{token}; the token names id and user_type.  Each
\* connection has its own WebSocket object.
Connect(ws, id, user_type) ==
    /\ ws \notin closed
    /\ sessions[ws] = NoSession
    /\ LET c == connect(merchant_connections, user_connections, ws, id, user_type) IN
         /\ merchant_connections' = c.mc
         /\ user_connections' = c.uc
    /\ sessions' = [sessions EXCEPT ![ws] = Session(id, user_type)]
    /\ UNCHANGED <<store, guest_users, registry, nextHandle, now, tz, tables, ret, pc, loc,
                   orders, inbox, closed, tasks, subscriptions, http>>

\* the client of a websocket goes away; its handler has not yet run
\* manager.disconnect
ClientGone(ws) ==
    /\ ws \notin closed
    /\ sessions[ws] # NoSession
    /\ closed' = closed \cup {ws}
    /\ UNCHANGED <<store, guest_users, registry, nextHandle, now, tz, tables, ret, pc, loc,
                   orders, merchant_connections, user_connections, inbox, tasks, sessions,
                   subscriptions, http>>

\* request T is suspended in the for loop over the list of the session's id
Iterates(T, session) ==
    \/ T.pc = "merchant" /\ session.user_type = "merchant" /\ Key(T) = session.user_id
    \/ T.pc = "user" /\ session.user_type = "user" /\ T.order.user_id = session.user_id

\* the dicts c hold no entry for the session's id: "del connections[user_id]"
\* has run, or there was none
Deleted(c, session) ==
    \/ session.user_type = "merchant" /\ session.user_id \notin DOMAIN c.mc
    \/ session.user_type = "user" /\ session.user_id \notin DOMAIN c.uc

\* receive_text raises WebSocketDisconnect in the handler of a websocket whose
\* client is gone: the handler runs manager.disconnect and returns
Disconnect(ws) ==
    /\ ws \in closed
    /\ sessions[ws] # NoSession
    /\ LET c == disconnect(merchant_connections, user_connections, ws,
                           sessions[ws].user_id, sessions[ws].user_type) IN
         /\ merchant_connections' = c.mc
         /\ user_connections' = c.uc
         /\ tasks' = [t \in Requests |->
                         IF Iterates(tasks[t], sessions[ws]) /\ Deleted(c, sessions[ws])
                         THEN [tasks[t] EXCEPT !.detached = TRUE] ELSE tasks[t]]
    /\ sessions' = [sessions EXCEPT ![ws] = NoSession]
    /\ UNCHANGED <<store, guest_users, registry, nextHandle, now, tz, tables, ret, pc, loc,
                   orders, inbox, closed, subscriptions, http>>

\* the messages a client sends
ClientMessages == {"get_orders", "ping"}

\* what the loop of websocket_orders may send back for one message of the
\* client: get_orders with no days, limit and offset, or ping
Answers(session, type) ==
    IF type = "ping" THEN {<<Pong>>}
    ELSE IF type = "get_orders" /\ session.user_type = "merchant"
    THEN {<<OrdersUpdate(session.user_id, transactions)>> :
            transactions \in get_merchant_transactions_by_period(
                                 registry["A"], store, now, tz, session.user_id,
                                 DefaultDays, DefaultOrderLimit, 0)}
    ELSE {<<>>}

\* the client of ws sends a message and the handler answers it
Receive(ws, type) ==
    /\ ws \notin closed
    /\ sessions[ws] # NoSession
    /\ Len(inbox[ws]) < MaxMessages
    /\ \E answer \in Answers(sessions[ws], type) :
          inbox' = [inbox EXCEPT ![ws] = @ \o answer]
    /\ UNCHANGED <<store, guest_users, registry, nextHandle, now, tz, tables, ret, pc, loc,
                   orders, merchant_connections, user_connections, closed, tasks, sessions,
                   subscriptions, http>>

\* push_service.subscribe_merchant: "self.subscriptions[merchant_id] = ..."
subscribe_merchant(subs, merchant_id) == subs \cup {merchant_id}

\* push_service.unsubscribe_merchant: "if merchant_id in self.subscriptions:
\* del self.subscriptions[merchant_id]"
unsubscribe_merchant(subs, merchant_id) ==
    IF merchant_id \in subs THEN subs \ {merchant_id} ELSE subs

\* POST /orders/push/subscribe
Subscribe(m) ==
    /\ subscriptions' = subscribe_merchant(subscriptions, m)
    /\ UNCHANGED <<store, guest_users, registry, nextHandle, now, tz, tables, ret, pc, loc,
                   orders, merchant_connections, user_connections, inbox, closed, tasks,
                   sessions, http>>

\* DELETE /orders/push/unsubscribe
Unsubscribe(m) ==
    /\ subscriptions' = unsubscribe_merchant(subscriptions, m)
    /\ UNCHANGED <<store, guest_users, registry, nextHandle, now, tz, tables, ret, pc, loc,
                   orders, merchant_connections, user_connections, inbox, closed, tasks,
                   sessions, http>>

\* the requests that have returned
Done == {u \in Requests : tasks[u].pc = "done"}

\* the handler's locals of n, with the order of its return among the requests
LocalsOf(n, t) ==
    [f \in DOMAIN NoTask |->
        IF f = "ended" /\ n.pc = "done" THEN 1 + Cardinality(Done \ {t}) ELSE n[f]]

\* what a run of request t up to n leaves
RunEffect(t, n) ==
    /\ registry' = [registry EXCEPT !["A"] = n.reg]
    /\ nextHandle' = [nextHandle EXCEPT !["A"] = n.nh]
    /\ store' = n.store
    /\ guest_users' = n.guests
    /\ orders' = n.orders
    /\ merchant_connections' = n.mc
    /\ user_connections' = n.uc
    /\ inbox' = n.inbox
    /\ tasks' = [tasks EXCEPT ![t] = LocalsOf(n, t)]
    /\ http' = IF n.pc = "done" THEN n.response ELSE http
    /\ UNCHANGED <<now, tz, tables, ret, pc, loc, closed, sessions, subscriptions>>

RunningTask(T) ==
    Running(T, registry["A"], nextHandle["A"], store, guest_users, users, orders,
            merchant_connections, user_connections, inbox, subscriptions, closed, now)

\* the ledger rows the requests in progress have still to write
Pending(t) ==
    IF tasks[t].pc \in {"idle", "done"} THEN 0
    ELSE Len(MerchantKeys(tasks[t].req.cart_items)) - tasks[t].j

\* POST /orders/checkout arrives as request t and runs to its first suspension
K_Begin(t, req, uss) ==
    /\ tasks[t].pc = "idle"
    /\ Idle("A")
    /\ Len(uss) = Len(MerchantKeys(req.cart_items))
    /\ \A u \in Requests \ {t} :
          TotalRows(store) + Pending(u) + Len(uss) <= MaxCheckoutRows
    /\ \E n \in {process_checkout(RunningTask(
                        [NoTask EXCEPT !.pc = "db", !.req = req, !.uss = uss,
                                       !.began = Done,
                                       !.listening = merchant_connections]))} :
          RunEffect(t, n)

\* the await that suspended request t returns and the handler runs on
K_Resume(t) ==
    /\ tasks[t].pc \notin {"idle", "done"}
    /\ \E n \in {Run(RunningTask([tasks[t] EXCEPT !.suspended = FALSE]))} :
          RunEffect(t, n)

\* POST /orders/checkout served without a suspension: no websocket of a
\* recipient is open and no merchant of the cart is subscribed to push
Checkout(req, uss) ==
    /\ Idle("A")
    /\ Len(uss) = Len(MerchantKeys(req.cart_items))
    /\ TotalRows(store) + Len(uss) <= MaxRows
    /\ \E n \in {process_checkout(RunningTask([NoTask EXCEPT !.pc = "db", !.req = req,
                                                            !.uss = uss]))} :
         /\ n.pc = "done"
         /\ registry' = [registry EXCEPT !["A"] = n.reg]
         /\ nextHandle' = [nextHandle EXCEPT !["A"] = n.nh]
         /\ store' = n.store
         /\ guest_users' = n.guests
         /\ orders' = n.orders
         /\ merchant_connections' = n.mc
         /\ user_connections' = n.uc
         /\ inbox' = n.inbox
         /\ http' = n.response
    /\ UNCHANGED <<now, tz, tables, ret, pc, loc, closed, tasks, sessions, subscriptions>>

UuidPairs == Uuids \X Uuids

\* the uuids one checkout may draw: a pair for each of k merchants
UuidDraws(k) == [1..k -> UuidPairs]

CheckoutCarts == {<<Rice>>, <<Dal>>, <<Clove>>, <<Rice, Salt>>, <<Rice, Dal>>, <<Dal, Rice>>}

CheckoutRequests ==
    {CheckoutRequest(cart, ONLINE, NullText, FALSE) : cart \in CheckoutCarts}
    \cup {CheckoutRequest(<<Rice>>, CASH, "Asha", TRUE)}

NextCheckout ==
    \E req \in CheckoutRequests :
        \E uss \in UuidDraws(Len(MerchantKeys(req.cart_items))) : Checkout(req, uss)

SpecCheckout == Init /\ [][NextCheckout]_vars

----------------------------------------------------------------------------
(* Claims about checkout *)

\* a step in which a checkout ran and answered (in a specification whose
\* other actions leave the database and the response alone)
CheckoutStep ==
    /\ http'.handler = "checkout"
    /\ <<store, guest_users, orders, http>>' # <<store, guest_users, orders, http>>

RowsBefore(st, m) == IF TableName(m) \in DOMAIN st THEN Range(st[TableName(m)]) ELSE {}

\* what a successful checkout over cart leaves for the j-th merchant of the
\* cart, given how the ledger amount relates to the order's total
OrderOfPartition(cart, j, first, LedgerAmount(_)) ==
    LET m == MerchantKeys(cart)[j]
        items == ItemsOf(cart, m)
        o == orders'[first + j]
        new == RowsBefore(store', m) \ RowsBefore(store, m)
    IN /\ o.merchant_id = m
       /\ o.total_amount = MerchantTotal(items)
       /\ Cardinality(new) = 1
       /\ \A row \in new : /\ row.transaction_id = o.transaction_id
                           /\ row.type = PAYED
                           /\ Literal(row.amount) = LedgerAmount(o.total_amount)
       /\ Len(o.items) = Len(items)
       /\ \A i \in 1..Len(items) :
             /\ o.items[i].item_id = items[i].id
             /\ o.items[i].total_price = LineTotal(items[i])
       /\ \A page \in get_merchant_orders(orders', m, DefaultOrderLimit, 0) :
             \E i \in 1..Len(page) : page[i] = o

CheckoutCreatesOrders(LedgerAmount(_)) ==
    (CheckoutStep /\ http'.status = 200) =>
        LET cart == http'.request.req.cart_items
            k == Len(MerchantKeys(cart))
        IN /\ Len(Placed(orders')) = Len(Placed(orders)) + k
           /\ Len(orders') = Len(orders) + k
           /\ TotalRows(store') = TotalRows(store) + k
           /\ \A j \in 1..k : OrderOfPartition(cart, j, Len(orders), LedgerAmount)

SameAmount(amount) == amount

\* the amount as the NUMERIC(10,2) column keeps it
TwoDecimals(amount) == Literal(Quantize(amount))

\* C12 as stated: a successful checkout over k merchants creates k Order rows
\* and k ledger rows, one of each per merchant; the Order's transaction_id is
\* the id of a PAYED row of that merchant's ledger whose amount equals the
\* Order's total_amount, the sum of the merchant's line totals; the Order has
\* one OrderItem per line with total_price = unit_price * quantity, and
\* get_merchant_orders returns it.
C12_LedgerAmountEqualsOrderTotal == [][CheckoutCreatesOrders(SameAmount)]_vars

\* C12 amended: the same, with the ledger row's amount equal to the Order's
\* total_amount rounded to two decimals.
C12_CheckoutCreatesOrderPerMerchant == [][CheckoutCreatesOrders(TwoDecimals)]_vars

\* a checkout over two merchants has succeeded; one order's total has three
\* decimals and its ledger row holds the rounded amount
C12_Witness ==
    /\ http.handler = "checkout" /\ http.status = 200
    /\ Len(MerchantKeys(http.request.req.cart_items)) = 2
    /\ Len(Placed(orders)) >= 2
    /\ \E i \in 1..Len(orders) :
          /\ orders[i].id # None
          /\ orders[i].total_amount # TwoDecimals(orders[i].total_amount)
          /\ \E row \in RowsBefore(store, orders[i].merchant_id) :
                /\ row.transaction_id = orders[i].transaction_id
                /\ row.amount = Quantize(orders[i].total_amount)

\* C16: the order_id of a successful checkout's response is the order_id of
\* the Order row persisted for the first merchant of the cart, so
\* get_order_by_id finds that order under the returned id.
C16_ReturnedOrderIdFindsOrder ==
    (http.handler = "checkout" /\ http.status = 200) =>
        /\ get_order_by_id(orders, http.order_id) # NoOrder
        /\ get_order_by_id(orders, http.order_id).merchant_id = http.merchant_id

----------------------------------------------------------------------------
(* The handlers and the requests they refuse or fail on *)


HandlerRequests ==
    {CheckoutRequest(cart, ONLINE, NullText, FALSE) :
        cart \in {<<>>, <<Free>>, <<Refund>>, <<Rice, Ghost>>, <<Ghost, Rice>>}}
    \cup {CheckoutRequest(<<Dal, Ghost>>, ONLINE, NullText, TRUE)}
    \cup {CheckoutRequest(<<Rice>>, "upi", NullText, FALSE)}

HandlerArgs ==
    {Args(None, Literal(20), PAYED, NullText, NullText, None, FALSE),
     Args(None, Literal(20), PAY_LATER, NullText, NullText, None, TRUE),
     Args(2, Literal(20), PAY_LATER, NullText, NullText, None, FALSE),
     Args(None, Literal(20), PAYED, NullText, NullText, None, TRUE)}

NextHandlers ==
    \/ \E req \in HandlerRequests :
          \E uss \in UuidDraws(Len(MerchantKeys(req.cart_items))) : Checkout(req, uss)
    \/ \E m \in Merchants, a \in HandlerArgs : CreateTransaction("A", m, a)

SpecHandlers == Init /\ [][NextHandlers]_vars

\* C11: every ledger row has amount > 0, whether create_transaction or
\* checkout wrote it.
C11_AmountsPositive == \A row \in AllRows(store) : row.amount > 0

\* C19: a validation failure found inside a handler is answered with 400:
\* create_transaction with neither user_id nor is_guest_transaction,
\* create_transaction for a guest with PAY_LATER, checkout with an empty cart.
C19_ValidationFailureIs400 ==
    /\ (http.handler = "create_transaction" /\ ret.op = "create_transaction"
          /\ CreateTransactionRejects(ret.args)) => http.status = 400
    /\ (http.handler = "checkout" /\ http.request.req.cart_items = <<>>)
          => http.status = 400

\* C20: a checkout with a line for an id that is no merchant's is answered
\* not-found and writes nothing, so a ledger table exists only for the ids
\* of existing merchants.
C20_UnknownMerchantRefused ==
    /\ \A name \in DOMAIN store : \E m \in Merchants : name = TableName(m)
    /\ (http.handler = "checkout"
          /\ \E i \in 1..Len(http.request.req.cart_items) :
                http.request.req.cart_items[i].merchant_id \notin Merchants)
          => http.status = 404

----------------------------------------------------------------------------
(* Notification: websockets connect, ask and go away while a checkout
   notifies *)

NotifyRequests ==
    {CheckoutRequest(<<Rice>>, ONLINE, NullText, FALSE),
     CheckoutRequest(<<Rice>>, CASH, "Asha", TRUE)}

NotifyDraws == {<<<<"0A1B2C3D", "0A1B2C3D">>>>}

\* the connections opened: merchant 1 can have three, user 1 two
NotifyConnects ==
    {<<"w1", "merchant", 1>>, <<"w1", "user", 1>>, <<"w2", "merchant", 1>>,
     <<"w2", "merchant", 12>>, <<"w3", "merchant", 1>>, <<"w3", "user", 1>>}

NextNotify ==
    \/ \E req \in NotifyRequests, uss \in NotifyDraws : K_Begin("X", req, uss)
    \/ K_Resume("X")
    \/ \E c \in NotifyConnects : Connect(c[1], c[3], c[2])
    \/ \E ws \in WebSockets : ClientGone(ws)
    \/ \E ws \in WebSockets : Disconnect(ws)
    \/ \E type \in ClientMessages : Receive("w1", type)

SpecNotify == Init /\ [][NextNotify]_vars

\* the websockets registered for id in conns
Registered(conns, id) == IF id \in DOMAIN conns THEN conns[id] ELSE <<>>

\* what ws has received in this step
Received(ws) == SubSeq(inbox'[ws], Len(inbox[ws]) + 1, Len(inbox'[ws]))

\* the new_order events among msgs
NewOrders(msgs) == SelectSeq(msgs, LAMBDA msg : msg.type = "new_order")

\* the new_order events of order o among msgs
EventsOf(msgs, o) ==
    SelectSeq(msgs, LAMBDA msg : msg.type = "new_order" /\ msg.data.order_id = o.order_id)

\* the event of order o, as the claim describes it
CarriesOrder(msg, o) ==
    /\ msg.type = "new_order"
    /\ msg.data.order_id = o.order_id
    /\ msg.data.amount = o.total_amount
    /\ msg.data.customer_name = o.customer_name
    /\ msg.data.items = [i \in 1..Len(o.items) |-> ItemData(o.items[i])]

\* every connection the merchant of order o had open from the beginning of
\* checkout t to its return has received the one event of o
NotifiesOrder(t, o) ==
    /\ \E i \in 1..Len(orders) : orders[i] = o
    /\ \A ws \in Range(Registered(tasks[t].listening, o.merchant_id)) \ closed :
          /\ Len(EventsOf(inbox[ws], o)) = 1
          /\ CarriesOrder(EventsOf(inbox[ws], o)[1], o)

\* a connection of a user holds only events of orders that user placed as a
\* registered user
OnlyOwnOrders(ws) ==
    sessions[ws].user_type = "user" =>
       \A i \in 1..Len(NewOrders(inbox[ws])) :
          /\ ~NewOrders(inbox[ws])[i].data.is_guest_order
          /\ NewOrders(inbox[ws])[i].data.user_id = sessions[ws].user_id

\* C15: when a checkout has succeeded, every connection the merchant of each
\* of its orders had open throughout has received one new_order event carrying
\* the persisted order's id, amount, customer name and items; and a user-role
\* connection holds only events of orders its user placed as a registered
\* user, never the event of a guest order.
C15_OnlyPlacingUserNotified ==
    /\ \A t \in Requests :
          (tasks[t].pc = "done" /\ tasks[t].response.status = 200) =>
             \A k \in 1..Len(tasks[t].made) : NotifiesOrder(t, tasks[t].made[k])
    /\ \A ws \in WebSockets : OnlyOwnOrders(ws)

\* a step of the handler of request t
HandlerStep(t) == [tasks'[t] EXCEPT !.detached = tasks[t].detached] # tasks[t]

\* the send loops of request t change an entry only by taking out websockets
\* whose client is gone, and only the entries of the recipients of t
OnlyFailedLeave(t, conns, conns2, recipients) ==
    /\ DOMAIN conns2 = DOMAIN conns
    /\ \A k \in DOMAIN conns :
          /\ conns2[k] = SelectSeq(conns[k], LAMBDA ws : ws \in Range(conns2[k]))
          /\ Range(conns[k]) \ Range(conns2[k]) \subseteq closed
          /\ k \notin recipients => conns2[k] = conns[k]

\* the websockets that the calls of request t have called send_text on in
\* this step
AttemptedNow(t) ==
    {ws \in WebSockets :
        \E k \in 1..Len(tasks'[t].calls) :
           /\ ws \in Range(tasks'[t].calls[k].attempted)
           /\ k <= Len(tasks[t].calls) => ws \notin Range(tasks[t].calls[k].attempted)}

\* the calls of request t on the entry of id that have returned in this step
ReturnedNow(t, role, id) ==
    {k \in 1..Len(tasks'[t].calls) :
        /\ tasks'[t].calls[k].role = role
        /\ tasks'[t].calls[k].id = id
        /\ tasks'[t].calls[k].returned
        /\ k <= Len(tasks[t].calls) => ~tasks[t].calls[k].returned}

\* a call of request t on the entry of id has raised in this step
RaisedNow(t, role, id) ==
    /\ tasks'[t].raised
    /\ \E k \in 1..Len(tasks'[t].calls) :
          /\ tasks'[t].calls[k].role = role
          /\ tasks'[t].calls[k].id = id
          /\ ~tasks'[t].calls[k].returned

\* the websockets whose send_text raised in the calls K of request t
ErroredIn(t, K) == UNION {Range(tasks'[t].calls[k].errored) : k \in K}

\* the entries of conns from which no call of request t has raised in this
\* step have lost exactly the websockets whose send_text raised in the calls
\* that have returned in this step
ExactlyErroredLeave(t, role, conns, conns2) ==
    \A id \in DOMAIN conns :
       ~RaisedNow(t, role, id) =>
          conns2[id] = SelectSeq(conns[id], LAMBDA ws :
                                    ws \notin ErroredIn(t, ReturnedNow(t, role, id)))

\* no call of request t has called send_text twice on one websocket, and
\* the websockets whose send_text raised are among those it was called on
OncePerCall(t) ==
    \A k \in 1..Len(tasks'[t].calls) :
       /\ \A i, j \in 1..Len(tasks'[t].calls[k].attempted) :
             tasks'[t].calls[k].attempted[i] = tasks'[t].calls[k].attempted[j] => i = j
       /\ Range(tasks'[t].calls[k].errored) \subseteq Range(tasks'[t].calls[k].attempted)
       /\ k <= Len(tasks[t].calls) =>
             /\ tasks'[t].calls[k].role = tasks[t].calls[k].role
             /\ tasks'[t].calls[k].id = tasks[t].calls[k].id
             /\ tasks[t].calls[k].returned => tasks'[t].calls[k] = tasks[t].calls[k]

\* what the calls of send_to_merchant / send_to_user made in a step of
\* request t may do
DeliversOnce(t) ==
    /\ Cardinality({ws \in WebSockets : Received(ws) # <<>>}) <= 1
    /\ OncePerCall(t)
    /\ \A ws \in WebSockets :
          /\ Len(Received(ws)) <= 1
          /\ Received(ws) # <<>> =>
                /\ Received(ws)[1].type = "new_order"
                /\ \E k \in 1..Len(tasks'[t].made) :
                      Received(ws)[1] = NewOrderMessage(tasks'[t].made[k].merchant_id,
                                                        OrderData(tasks'[t].made[k]))
                /\ \/ ws \in Range(Registered(merchant_connections,
                                               Received(ws)[1].merchant_id))
                   \/ ws \in Range(Registered(user_connections,
                                               Received(ws)[1].data.user_id))
                /\ ws \in AttemptedNow(t)
          /\ (ws \in AttemptedNow(t) /\ ws \notin closed) => Len(Received(ws)) = 1
          /\ (ws \in AttemptedNow(t) /\ ws \in closed) =>
                \E k \in 1..Len(tasks'[t].calls) : ws \in Range(tasks'[t].calls[k].errored)
    /\ OnlyFailedLeave(t, merchant_connections, merchant_connections',
                       Range(MerchantKeys(tasks'[t].req.cart_items)))
    /\ OnlyFailedLeave(t, user_connections, user_connections',
                       {tasks'[t].made[k].user_id : k \in 1..Len(tasks'[t].made)})
    /\ ExactlyErroredLeave(t, "merchant", merchant_connections, merchant_connections')
    /\ ExactlyErroredLeave(t, "user", user_connections, user_connections')

\* a checkout is suspended in the loop over the list its merchant had, which
\* has left the dict, while the merchant's entry is a new list of two open
\* connections: the loop ends without sending to either
NewListNotIterated ==
    \E t \in Requests :
       /\ tasks[t].pc = "merchant" /\ tasks[t].detached
       /\ Key(tasks[t]) \in DOMAIN merchant_connections
       /\ Len(merchant_connections[Key(tasks[t])]) = 2
       /\ Range(merchant_connections[Key(tasks[t])]) \cap closed = {}

\* no websocket holds two events of one order
AtMostOnce ==
    \A ws \in WebSockets : \A i, j \in 1..Len(NewOrders(inbox[ws])) :
       NewOrders(inbox[ws])[i].data.order_id = NewOrders(inbox[ws])[j].data.order_id => i = j

\* C18: send_to_merchant / send_to_user give the message at most once to a
\* connection, and only to connections registered for the recipient; when
\* a call returns, exactly the connections whose send errored have left the
\* recipient's entry, the others and every other recipient's entry are as
\* before; and nothing is kept for later: an event reaches a connection only
\* in a step of the checkout that sends it, never when the connection is
\* opened or asks for something.
C18_SendDropsExactlyFailed ==
    [][/\ \A t \in Requests : HandlerStep(t) => DeliversOnce(t)
       /\ (\A t \in Requests : ~HandlerStep(t)) =>
             \A ws \in WebSockets : NewOrders(Received(ws)) = <<>>
       /\ AtMostOnce']_vars

\* a checkout has found the only connection of its merchant errored and has
\* emptied the entry, the connection having received nothing, while the open
\* connection of another merchant is still registered and has received
\* nothing
C18_Witness ==
    \E t \in Requests :
       /\ tasks[t].pc = "done" /\ ~tasks[t].raised
       /\ Len(tasks[t].made) = 1
       /\ LET m == tasks[t].made[1].merchant_id IN
            /\ m \in DOMAIN merchant_connections
            /\ merchant_connections[m] = <<>>
            /\ \E ws \in closed : sessions[ws] = Session(m, "merchant") /\ inbox[ws] = <<>>
            /\ \E k \in DOMAIN merchant_connections \ {m} :
                  \E ws \in WebSockets \ closed :
                     merchant_connections[k] = <<ws>> /\ NewOrders(inbox[ws]) = <<>>

----------------------------------------------------------------------------
(* Two checkouts in one process, interleaved at their suspension points *)

RaceRequests ==
    {CheckoutRequest(cart, ONLINE, NullText, FALSE) : cart \in {<<Rice>>, <<Rice, Dal>>}}
    \cup {CheckoutRequest(<<Rice>>, CASH, "Asha", TRUE)}

\* the uuids drawn: the same one or two different ones in the loop and in
\* create_order, for each merchant of the cart
RaceDraws(k) == [1..k -> {<<"0A1B2C3D", "0A1B2C3D">>, <<"4E5F6A7B", "4E5F6A7B">>}]

\* merchant 1 has two websockets open
InitRace ==
    /\ store = <<>>
    /\ guest_users = <<>>
    /\ now = 1
    /\ tz = 0
    /\ registry = [p \in Procs |-> <<>>]
    /\ nextHandle = [p \in Procs |-> 1]
    /\ pc = [p \in Procs |-> "idle"]
    /\ loc = [p \in Procs |-> NoLoc]
    /\ ret = NoRet
    /\ orders = <<>>
    /\ merchant_connections = Register(Register(<<>>, "w1", 1), "w2", 1)
    /\ user_connections = <<>>
    /\ inbox = [ws \in WebSockets |-> <<>>]
    /\ closed = {}
    /\ tasks = [t \in Requests |-> NoTask]
    /\ sessions = SessionsOf(merchant_connections, user_connections)
    /\ subscriptions = {}
    /\ http = NoHttp
    /\ users = Users
    /\ inventory_items = <<>>
    /\ purchase_list_items = <<>>
    /\ inventory_transactions = <<>>
    /\ response = [handler |-> "none", status |-> 0, merchant_id |-> 0, item_id |-> 0,
                  request |-> [body |-> 0], row |-> 0]

NextRace ==
    \/ \E t \in Requests, req \in RaceRequests :
          \E uss \in RaceDraws(Len(MerchantKeys(req.cart_items))) : K_Begin(t, req, uss)
    \/ \E t \in Requests : K_Resume(t)
    \/ Subscribe(1)
    \/ Unsubscribe(1)

SpecRace == InitRace /\ [][NextRace]_vars

\* the ids of the ledger rows of merchant m
LedgerIds(m) ==
    IF TableName(m) \in DOMAIN store
    THEN [k \in 1..Len(store[TableName(m)]) |-> store[TableName(m)][k].transaction_id]
    ELSE <<>>

Injective(s) == \A a, b \in 1..Len(s) : a # b => s[a] # s[b]

\* C13: no two Order rows share an order id or a (merchant, transaction id)
\* pair, and no two ledger rows of a merchant share a transaction id; every
\* checkout that has succeeded has its own Order row for each of its merchants.
C13_DistinctOrderAndTransactionIds ==
    /\ Injective([k \in 1..Len(Placed(orders)) |-> Placed(orders)[k].order_id])
    /\ Injective([k \in 1..Len(Placed(orders)) |->
                    <<Placed(orders)[k].merchant_id, Placed(orders)[k].transaction_id>>])
    /\ \A mm \in Merchants : Injective(LedgerIds(mm))
    /\ \A t \in Requests :
          (tasks[t].pc = "done" /\ tasks[t].response.status = 200) =>
             \A k \in 1..Len(tasks[t].made) :
                /\ \E a \in 1..Len(Placed(orders)) : Placed(orders)[a] = tasks[t].made[k]
                /\ tasks[t].made[k].transaction_id \in Range(LedgerIds(tasks[t].made[k].merchant_id))
                /\ \A u \in Requests \ {t} : \A b \in 1..Len(tasks[u].made) :
                      /\ tasks[u].made[b].order_id # tasks[t].made[k].order_id
                      /\ tasks[u].made[b].merchant_id = tasks[t].made[k].merchant_id
                            => tasks[u].made[b].transaction_id # tasks[t].made[k].transaction_id

BothSucceeded ==
    \A t \in Requests : tasks[t].pc = "done" /\ tasks[t].response.status = 200

Overlapped == \A t \in Requests : tasks[t].began = {}

\* two checkouts for merchant 1 have run concurrently and both have succeeded
C13_Witness ==
    /\ BothSucceeded
    /\ Overlapped
    /\ \A t \in Requests : \E k \in 1..Len(tasks[t].made) : tasks[t].made[k].merchant_id = 1

\* the order request t created for merchant mm
MadeFor(t, mm) ==
    tasks[t].made[CHOOSE k \in 1..Len(tasks[t].made) : tasks[t].made[k].merchant_id = mm]

HasLinesFor(t, mm) == \E k \in 1..Len(tasks[t].made) : tasks[t].made[k].merchant_id = mm

\* the places of the events of order o in what ws has received
PlacesOf(ws, o) ==
    {k \in 1..Len(inbox[ws]) :
        inbox[ws][k].type = "new_order" /\ inbox[ws][k].data.order_id = o.order_id}

\* ws has received one event of each of the two orders, in the order in
\* which their checkouts returned
InCompletionOrder(ws, mm) ==
    \A t, u \in Requests :
       tasks[t].ended < tasks[u].ended =>
          \A a \in PlacesOf(ws, MadeFor(t, mm)), b \in PlacesOf(ws, MadeFor(u, mm)) : a < b

ReceivesBoth(ws, mm) ==
    /\ Len(inbox[ws]) = 2
    /\ \A t \in Requests : Cardinality(PlacesOf(ws, MadeFor(t, mm))) = 1

OpenConnections(mm) == Range(Registered(merchant_connections, mm)) \ closed

----------------------------------------------------------------------------
(* Two checkouts interleaved while connections of the merchant come and go *)

LeaveRequests ==
    {CheckoutRequest(cart, ONLINE, NullText, FALSE) : cart \in {<<Rice>>, <<Rice, Dal>>}}

\* each request draws uuids of its own
LeaveDraws(t, k) ==
    [j \in 1..k |-> IF t = "X" THEN <<"0A1B2C3D", "0A1B2C3D">>
                                 ELSE <<"4E5F6A7B", "4E5F6A7B">>]

\* the websockets whose client goes away: the first of the merchant's list
\* and the one opened later
Leaving == {"w1", "w3"}

\* merchant 1 has two websockets open and opens a third; clients go away and
\* their handlers run manager.disconnect between the steps of the checkouts
NextLeave ==
    \/ \E t \in Requests, req \in LeaveRequests :
          K_Begin(t, req, LeaveDraws(t, Len(MerchantKeys(req.cart_items))))
    \/ \E t \in Requests : K_Resume(t)
    \/ Connect("w3", 1, "merchant")
    \/ \E ws \in Leaving : ClientGone(ws)
    \/ \E ws \in Leaving : Disconnect(ws)

SpecLeave == InitRace /\ [][NextLeave]_vars

\* the connections mm had when request t began
ListeningAt(t, mm) == Range(Registered(tasks[t].listening, mm))

\* every connection mm had when either checkout began is still in its entry:
\* no disconnect and no removal loop has taken one out of the list
ConnectionsStayed(mm) ==
    \A t \in Requests :
       ListeningAt(t, mm) \subseteq Range(Registered(merchant_connections, mm))

\* the connections mm had when each of the checkouts began and whose client
\* is still there
OpenThroughout(mm) == {ws \in WebSockets \ closed : \A t \in Requests : ws \in ListeningAt(t, mm)}

ConnectionPassedOver ==
    /\ BothSucceeded
    /\ \A t \in Requests : HasLinesFor(t, 1)
    /\ \E ws \in OpenThroughout(1) :
          ws \in Range(Registered(merchant_connections, 1)) /\ Len(inbox[ws]) = 1

----------------------------------------------------------------------------
(* Guest checkouts and the users table *)

\* a database with the given connections, users and local-time offset, and
\* nothing else
InitWith(mc, us, zone) ==
    /\ store = <<>>
    /\ guest_users = <<>>
    /\ now = 1
    /\ tz = zone
    /\ registry = [p \in Procs |-> <<>>]
    /\ nextHandle = [p \in Procs |-> 1]
    /\ pc = [p \in Procs |-> "idle"]
    /\ loc = [p \in Procs |-> NoLoc]
    /\ ret = NoRet
    /\ orders = <<>>
    /\ merchant_connections = mc
    /\ user_connections = <<>>
    /\ inbox = [ws \in WebSockets |-> <<>>]
    /\ closed = {}
    /\ tasks = [t \in Requests |-> NoTask]
    /\ sessions = SessionsOf(merchant_connections, user_connections)
    /\ subscriptions = {}
    /\ http = NoHttp
    /\ users = us
    /\ inventory_items = <<>>
    /\ purchase_list_items = <<>>
    /\ inventory_transactions = <<>>
    /\ response = [handler |-> "none", status |-> 0, merchant_id |-> 0, item_id |-> 0,
                  request |-> [body |-> 0], row |-> 0]

\* POST /auth/register/user: the users table gets a row with the next id
RegisterUser ==
    /\ Cardinality(users) < Cardinality(Users)
    /\ users' = users \cup {Cardinality(users) + 1}
    /\ UNCHANGED <<store, guest_users, registry, nextHandle, now, tz, ret, pc, loc,
                   market, http, inventory_items, purchase_list_items,
                   inventory_transactions, response>>

GuestRequests ==
    {CheckoutRequest(cart, CASH, "Asha", TRUE) : cart \in {<<Rice>>, <<Dal>>, <<Rice, Dal>>}}

\* no user is registered yet
InitNoUsers == InitWith(<<>>, {}, 0)

NextGuestOrder ==
    \/ RegisterUser
    \/ \E req \in GuestRequests :
          \E uss \in UuidDraws(Len(MerchantKeys(req.cart_items))) : Checkout(req, uss)

SpecGuestOrder == InitNoUsers /\ [][NextGuestOrder]_vars

\* the uuids drawn for create_order are not those of an Order already there
FreshOrderIds(request) ==
    LET keys == MerchantKeys(request.req.cart_items) IN
    /\ \A j \in 1..Len(keys) : \A i \in 1..Len(orders) :
          orders[i].order_id # OrderId(keys[j], request.us[j][2])
    /\ \A j, k \in 1..Len(keys) : j # k =>
          OrderId(keys[j], request.us[j][2]) # OrderId(keys[k], request.us[k][2])

\* C26: a guest checkout with a non-empty cart of lines for existing
\* merchants succeeds and persists an Order for each of its merchants,
\* whatever rows the users table holds.
C26_GuestCheckoutIgnoresUsers ==
    [][(/\ CheckoutStep
        /\ http'.request.req.is_guest_order
        /\ http'.request.req.cart_items # <<>>
        /\ \A m \in Range(MerchantKeys(http'.request.req.cart_items)) : m \in Merchants
        /\ FreshOrderIds(http'.request))
       => /\ http'.status = 200
          /\ Len(Placed(orders')) =
                Len(Placed(orders)) + Len(MerchantKeys(http'.request.req.cart_items))]_vars

----------------------------------------------------------------------------
(* Checkouts whose notifications meet websockets that go away *)

DropRequests ==
    {CheckoutRequest(<<Rice>>, ONLINE, NullText, FALSE),
     CheckoutRequest(<<Rice>>, CASH, "Asha", TRUE)}

\* merchant 1 has two websockets open
InitDrop == InitWith(Register(Register(<<>>, "w1", 1), "w2", 1), Users, 0)

NextDrop ==
    \/ \E t \in Requests, req \in DropRequests :
          \E uss \in RaceDraws(Len(MerchantKeys(req.cart_items))) : K_Begin(t, req, uss)
    \/ \E t \in Requests : K_Resume(t)
    \/ \E ws \in WebSockets : ClientGone(ws)
    \/ \E ws \in WebSockets : Disconnect(ws)

SpecDrop == InitDrop /\ [][NextDrop]_vars

\* request t has failed after committing an order, in that order's
\* notification: the order is made and not yet among the processed ones
FailedInNotification(t) ==
    /\ tasks[t].pc = "done"
    /\ tasks[t].raised
    /\ Len(tasks[t].made) > Len(tasks[t].processed)

\* C27: send_to_merchant and send_to_user return normally whatever the
\* websocket handlers' disconnects and the other deliveries do meanwhile: no
\* checkout fails in the notification of an order it has committed.
C27_DeliveryNeverRaises == \A t \in Requests : ~FailedInNotification(t)

----------------------------------------------------------------------------
(* Checkouts that fail part of the way, in the database calls or in the
   notification of an order *)

PartialRequests ==
    {CheckoutRequest(cart, ONLINE, NullText, FALSE) :
        cart \in {<<Rice>>, <<Dal, Rice>>, <<Rice, Ghost>>}}
    \cup {CheckoutRequest(<<Rice>>, "upi", NullText, FALSE)}

\* merchant 1 has two websockets open; their clients go away and their
\* handlers run manager.disconnect between the steps of the checkouts
NextPartial ==
    \/ \E t \in Requests, req \in PartialRequests :
          K_Begin(t, req, LeaveDraws(t, Len(MerchantKeys(req.cart_items))))
    \/ \E t \in Requests : K_Resume(t)
    \/ \E ws \in WebSockets : ClientGone(ws)
    \/ \E ws \in WebSockets : Disconnect(ws)

SpecPartial == InitDrop /\ [][NextPartial]_vars

\* request t returns in this step, having failed on a cart with lines
FailsNow(t) ==
    /\ tasks[t].pc # "done"
    /\ tasks'[t].pc = "done"
    /\ tasks'[t].response.status # 200
    /\ tasks'[t].req.cart_items # <<>>

\* the Order rows among ords that request T has inserted for the i-th
\* merchant of its cart: those with the order id it drew for that merchant
OrdersOfPartition(ords, T, i) ==
    {k \in 1..Len(ords) :
        /\ ords[k].id # None
        /\ ords[k].merchant_id = MerchantKeys(T.req.cart_items)[i]
        /\ ords[k].order_id = OrderId(ords[k].merchant_id, T.uss[i][2])}

\* T has raised inside send_to_merchant or send_to_user
RaisedInNotification(T) == T.calls # <<>> /\ ~T.calls[Len(T.calls)].returned

\* what a checkout t that fails while processing its merchant number j
\* leaves, given the numbers of merchants it may have an Order row for
FailureLeaves(t, OrdersKept(_)) ==
    LET T == tasks'[t]
        cart == T.req.cart_items
        keys == MerchantKeys(cart)
        n == Len(T.made)
    IN /\ T.response.status = 500
       /\ http' = T.response
       /\ T.j \in 1..Len(keys)
       /\ n \in OrdersKept(T.j)
       /\ n = T.j <=> RaisedInNotification(T)
       /\ \A i \in 1..n :
             /\ T.made[i].merchant_id = keys[i]
             /\ Len(T.made[i].items) = Len(ItemsOf(cart, keys[i]))
             /\ \E k \in OrdersOfPartition(orders', T, i) : orders'[k] = T.made[i]
             /\ \E row \in RowsBefore(store', keys[i]) :
                   row.transaction_id = T.made[i].transaction_id
       /\ \A i \in (n + 1)..Len(keys) : OrdersOfPartition(orders', T, i) = {}

\* no step takes back or changes an Order row or a ledger row
NothingRolledBack ==
    /\ Len(orders') >= Len(orders)
    /\ SubSeq(orders', 1, Len(orders)) = orders
    /\ \A m \in Merchants \cup {UnknownMerchant} :
          RowsBefore(store, m) \subseteq RowsBefore(store', m)

UpToPrevious(j) == {j - 1}
UpToCurrent(j) == {j - 1, j}

----------------------------------------------------------------------------
(* Order status updates *)

\* order_service.update_order_status: the order with that order_id gets the
\* status and updated_at = utcnow, committed; the order, or NoOrder
update_order_status(ords, clock, order_id, status) ==
    IF \E i \in 1..Len(ords) : ords[i].order_id = order_id
    THEN LET i == CHOOSE k \in 1..Len(ords) : ords[k].order_id = order_id IN
         [orders |-> [ords EXCEPT ![i].status = status, ![i].updated_at = clock],
          order |-> [ords[i] EXCEPT !.status = status, !.updated_at = clock]]
    ELSE [orders |-> ords, order |-> NoOrder]

\* inside the handler "status" is its str parameter, not fastapi.status: both
\* "status.HTTP_404_NOT_FOUND" and, in the except clause,
\* "status.HTTP_500_INTERNAL_SERVER_ERROR" raise AttributeError, and the
\* server answers the unhandled exception
StrHasNoAttribute(code) == 500

\* the answer of PUT /orders/{order_id}/status, after the service gave r
UpdateOrderStatusResponse(caller, order_id, r) ==
    IF r.order = NoOrder
    THEN HttpResponse("update_order_status", StrHasNoAttribute(404), NoRequest, order_id,
                      Literal(0), 0, caller)
    ELSE IF r.order.merchant_id # caller
    THEN HttpResponse("update_order_status", StrHasNoAttribute(403), NoRequest, order_id,
                      Literal(0), 0, caller)
    ELSE HttpResponse("update_order_status", 200, NoRequest, order_id, Literal(0), 0,
                      caller)

UpdateOrderStatusEffect(caller, order_id, r) ==
    /\ orders' = r.orders
    /\ http' = UpdateOrderStatusResponse(caller, order_id, r)

\* PUT /orders/{order_id}/status?status=..., called by merchant caller
UpdateOrderStatus(caller, order_id, status) ==
    /\ UpdateOrderStatusEffect(caller, order_id,
                               update_order_status(orders, now, order_id, status))
    /\ UNCHANGED <<store, guest_users, registry, nextHandle, now, tz, tables, ret, pc, loc,
                   merchant_connections, user_connections, inbox, closed, tasks,
                   sessions, subscriptions>>

OneDraw == <<<<"0A1B2C3D", "0A1B2C3D">>>>

StatusRequests ==
    {CheckoutRequest(cart, ONLINE, NullText, FALSE) : cart \in {<<Rice>>, <<Dal>>}}

OrderIds == {OrderId(1, "0A1B2C3D"), OrderId(12, "0A1B2C3D")}

Statuses == {"confirmed", "delivered"}

NextStatus ==
    \/ \E req \in StatusRequests : Checkout(req, OneDraw)
    \/ \E caller \in Merchants, id \in OrderIds, s \in Statuses :
          UpdateOrderStatus(caller, id, s)
    \/ Tick

SpecStatus == Init /\ [][NextStatus]_vars

UpdateStep ==
    /\ http'.handler = "update_order_status"
    /\ <<orders, http>>' # <<orders, http>>

\* C21: update_order_status called by a merchant who does not own the
\* addressed order is answered 403 and leaves the order's status and
\* updated_at as they were.
C21_OnlyOwnerChangesStatus ==
    [][UpdateStep =>
          LET o == get_order_by_id(orders, http'.order_id) IN
          (o # NoOrder /\ o.merchant_id # http'.merchant_id) =>
             /\ http'.status = 403
             /\ get_order_by_id(orders', http'.order_id).status = o.status
             /\ get_order_by_id(orders', http'.order_id).updated_at = o.updated_at]_vars

----------------------------------------------------------------------------
(* Two processes: one writes the ledgers, the other one only reads them *)

NextTwoProcs ==
    \/ \E m \in Merchants, a \in EmptyArgs : InsertTransaction("A", m, a)
    \/ \E m \in Merchants : ListTransactions("B", m, DefaultLimit, 0)
    \/ \E m \in Merchants, days \in Days : Analytics("B", m, days)
    \/ Tick

SpecTwoProcs == Init /\ [][NextTwoProcs]_vars

\* the committed rows of merchant m that are not older than days
InWindowRows(m, days) ==
    SelectSeq(RowsOf(store, m), LAMBDA r : r.timestamp >= now - days * DayTicks)

\* C28: a read of merchant M's ledger in a process returns and counts every
\* committed row of M, whichever process created the table and wrote the row.
C28_ReaderSeesOtherProcessRows ==
    [][(ret' # ret /\ ret'.op \in {"list", "analytics"}) =>
          /\ ret'.op = "list" => Len(ret'.rows) = Len(RowsOf(store, ret'.merchant_id))
          /\ ret'.op = "analytics" =>
                ret'.stats.total_transactions =
                   Len(InWindowRows(ret'.merchant_id, ret'.params.days))]_vars

\* C29: at any instant, for each merchant and period,
\* get_merchant_transactions_by_period with a limit covering all rows returns
\* as many rows as get_merchant_transaction_analytics counts in
\* total_transactions, and they are the rows of the same window.
C29_ListAndAnalyticsSameWindow ==
    \A m \in Merchants, days \in Days :
       \A rows \in get_merchant_transactions_by_period(registry["A"], store, now, tz, m,
                                                       days, DefaultLimit, 0) :
          /\ Len(rows) = get_merchant_transaction_analytics(registry["A"], store, now, m,
                                                           days).total_transactions
          /\ Range(rows) = Range(InWindowRows(m, days))

-----------------------------------------------------------------------------
(* The inventory (api/v1/inventory.py).  Each handler is a coroutine that   *)
(* never awaits, so a request runs from its first query to its last commit  *)
(* without another request of the process in between.                       *)

MaxItems == 2          \* rows of inventory_items
MaxPurchaseRows == 2   \* rows of purchase_list_items
MaxLogRows == 2        \* rows of inventory_transactions
MaxQuantity == 2       \* largest stock level reached through update_quantity
MaxListed == 1         \* items of the merchant whose purchase list is followed

\* the columns of inventory_items that the handlers read or write
InventoryItem(id, merchant_id, sku, current_quantity, min_quantity, is_active) ==
    [id |-> id, merchant_id |-> merchant_id, sku |-> sku,
     current_quantity |-> current_quantity, min_quantity |-> min_quantity,
     is_active |-> is_active]

\* a request body of POST /items; is_active is left at its default
InventoryItemCreate(sku, current_quantity, min_quantity) ==
    [sku |-> sku, current_quantity |-> current_quantity, min_quantity |-> min_quantity,
     is_active |-> TRUE]

\* a row of purchase_list_items as it is inserted: updated_at is NULL
PurchaseListItem(id, merchant_id, inventory_item_id, quantity_needed, is_purchased) ==
    [id |-> id, merchant_id |-> merchant_id, inventory_item_id |-> inventory_item_id,
     quantity_needed |-> quantity_needed, is_purchased |-> is_purchased,
     updated_at |-> None]

\* the row after the commit of an assignment: the UPDATE is emitted, and
\* updated_at (onupdate=func.now()) set, only when a column's value changed
Updated(row, changed, clock) ==
    IF changed = row THEN row ELSE [changed EXCEPT !.updated_at = clock]

InventoryTransaction(id, merchant_id, inventory_item_id, transaction_type, quantity_change, previous_quantity, new_quantity) ==
    [id |-> id, merchant_id |-> merchant_id, inventory_item_id |-> inventory_item_id,
     transaction_type |-> transaction_type, quantity_change |-> quantity_change,
     previous_quantity |-> previous_quantity, new_quantity |-> new_quantity]

NoItem == InventoryItem(None, None, NullText, 0, 0, FALSE)

\* a request (its path parameter item_id and its body) with its answer: the
\* status and, from add_to_purchase_list, the id of the row it returns
InventoryResponse(handler, status, merchant_id, item_id, request, row) ==
    [handler |-> handler, status |-> status, merchant_id |-> merchant_id,
     item_id |-> item_id, request |-> request, row |-> row]

NoBody == [body |-> None]
NoResponse == InventoryResponse("none", 0, None, None, NoBody, None)

\* what a request leaves behind: the three tables and the status it answers
Outcome(items, purchase, log, status) ==
    [items |-> items, purchase |-> purchase, log |-> log, status |-> status]

\* query(InventoryItem).filter(id == item_id, merchant_id == current_merchant.id).first()
ItemOf(items, merchant_id, item_id) ==
    IF item_id \in DOMAIN items /\ items[item_id].merchant_id = merchant_id
    THEN items[item_id]
    ELSE NoItem

\* the handlers' SKU check: an item of this merchant with this SKU
SkuExists(items, merchant_id, sku) ==
    \E i \in DOMAIN items : items[i].sku = sku /\ items[i].merchant_id = merchant_id

\* sku = Column(..., unique=True): the commit raises IntegrityError when another
\* row of the table, of any merchant, holds the SKU; NULLs never collide
SkuIntegrityError(items, item_id, sku) ==
    /\ sku # NullText
    /\ \E i \in DOMAIN items : i # item_id /\ items[i].sku = sku

\* "if item.sku:": the SKU is neither None nor the empty string
Truthy(sku) == sku # NullText /\ sku # ""

\* an INSERT that the constraint refuses has drawn its id from the serial
\* sequence: the id stays without a row (NoItem in the place of that id)
RefusedItem(items) == Append(items, NoItem)

\* POST /items
create_inventory_item(items, purchase, log, merchant_id, item) ==
    IF Truthy(item.sku) /\ SkuExists(items, merchant_id, item.sku)
    THEN Outcome(items, purchase, log, 400)
    ELSE IF SkuIntegrityError(items, None, item.sku)
    THEN Outcome(RefusedItem(items), purchase, log, 500)
    ELSE LET db_item == InventoryItem(Len(items) + 1, merchant_id, item.sku,
                                      item.current_quantity, item.min_quantity,
                                      item.is_active)
         IN Outcome(Append(items, db_item), purchase,
                    IF db_item.current_quantity > 0
                    THEN Append(log, InventoryTransaction(Len(log) + 1, merchant_id,
                                    db_item.id, "in", db_item.current_quantity, 0,
                                    db_item.current_quantity))
                    ELSE log,
                    200)

\* item_update.dict(exclude_unset=True): the fields the request carries
Field(update_data, field, old) ==
    IF field \in DOMAIN update_data THEN update_data[field] ELSE old

\* "for field, value in update_data.items(): setattr(item, field, value)"
SetAttrs(item, update_data) ==
    InventoryItem(item.id, item.merchant_id, Field(update_data, "sku", item.sku),
                  Field(update_data, "current_quantity", item.current_quantity),
                  Field(update_data, "min_quantity", item.min_quantity),
                  Field(update_data, "is_active", item.is_active))

UpdateChecked(items, purchase, log, item, updated) ==
    IF SkuIntegrityError(items, item.id, updated.sku)
    THEN Outcome(items, purchase, log, 500)
    ELSE Outcome([items EXCEPT ![item.id] = updated], purchase, log, 200)

\* PUT /items/{item_id}
update_inventory_item(items, purchase, log, merchant_id, item_id, update_data) ==
    LET item == ItemOf(items, merchant_id, item_id) IN
    IF item = NoItem
    THEN Outcome(items, purchase, log, 404)
    ELSE IF /\ Truthy(Field(update_data, "sku", NullText))
            /\ update_data.sku # item.sku
            /\ SkuExists(items, merchant_id, update_data.sku)
    THEN Outcome(items, purchase, log, 400)
    ELSE UpdateChecked(items, purchase, log, item, SetAttrs(item, update_data))

\* DELETE /items/{item_id}: a soft delete, the row stays with is_active False
delete_inventory_item(items, purchase, log, merchant_id, item_id) ==
    LET item == ItemOf(items, merchant_id, item_id) IN
    IF item = NoItem
    THEN Outcome(items, purchase, log, 404)
    ELSE Outcome([items EXCEPT ![item.id].is_active = FALSE], purchase, log, 200)

TransactionTypeOf(quantity_change) ==
    IF quantity_change > 0 THEN "in"
    ELSE IF quantity_change < 0 THEN "out"
    ELSE "adjustment"

\* POST /items/{item_id}/quantity
update_quantity(items, purchase, log, merchant_id, item_id, quantity_change) ==
    LET item == ItemOf(items, merchant_id, item_id)
        previous_quantity == item.current_quantity
        new_quantity == previous_quantity + quantity_change
    IN
    IF item = NoItem
    THEN Outcome(items, purchase, log, 404)
    ELSE IF new_quantity < 0
    THEN Outcome(items, purchase, log, 400)
    ELSE Outcome([items EXCEPT ![item_id].current_quantity = new_quantity], purchase,
                 Append(log, InventoryTransaction(Len(log) + 1, merchant_id, item_id,
                            TransactionTypeOf(quantity_change), quantity_change,
                            previous_quantity, new_quantity)),
                 200)

\* the unpurchased rows of one item of one merchant
OpenRows(purchase, merchant_id, inventory_item_id) ==
    {i \in DOMAIN purchase :
        /\ purchase[i].merchant_id = merchant_id
        /\ purchase[i].inventory_item_id = inventory_item_id
        /\ ~purchase[i].is_purchased}

Least(S) == CHOOSE i \in S : \A j \in S : i <= j

Upsert_AlwaysInsert(purchase, clock, merchant_id, inventory_item_id, quantity_needed) ==
    Append(purchase, PurchaseListItem(Len(purchase) + 1, merchant_id,
                                      inventory_item_id, quantity_needed, FALSE))
\* existing_purchase_item: .first() of the open rows (the row of the lowest id),
\* then either its quantity_needed is set or a new open row is added
Upsert(purchase, clock, merchant_id, inventory_item_id, quantity_needed) ==
    LET existing == OpenRows(purchase, merchant_id, inventory_item_id) IN
    IF existing # {}
    THEN [purchase EXCEPT ![Least(existing)] =
             Updated(@, [@ EXCEPT !.quantity_needed = quantity_needed], clock)]
    ELSE Append(purchase, PurchaseListItem(Len(purchase) + 1, merchant_id,
                                           inventory_item_id, quantity_needed, FALSE))

\* POST /purchase-list
add_to_purchase_list(items, purchase, log, clock, merchant_id, inventory_item_id, quantity_needed) ==
    IF ItemOf(items, merchant_id, inventory_item_id) = NoItem
    THEN Outcome(items, purchase, log, 404)
    ELSE Outcome(items,
                 Upsert(purchase, clock, merchant_id, inventory_item_id, quantity_needed),
                 log, 200)

\* the low-stock query of get_purchase_list
low_stock_items(items, merchant_id) ==
    {i \in DOMAIN items :
        /\ items[i].merchant_id = merchant_id
        /\ items[i].is_active
        /\ items[i].current_quantity <= items[i].min_quantity}

\* .all() without ORDER BY: the rows come in an order the database chooses
Orderings(S) ==
    {s \in [1..Cardinality(S) -> S] : \A i, j \in DOMAIN s : i # j => s[i] # s[j]}

RECURSIVE PurchaseLoop(_, _, _, _, _)
\* "for item in low_stock_items": one upsert per item, in the order given
PurchaseLoop(purchase, clock, merchant_id, items, order) ==
    IF order = <<>>
    THEN purchase
    ELSE LET item == items[Head(order)] IN
         PurchaseLoop(Upsert(purchase, clock, merchant_id, item.id,
                             item.min_quantity - item.current_quantity),
                      clock, merchant_id, items, Tail(order))

\* GET /purchase-list: the outcomes the request may have
get_purchase_list(items, purchase, log, clock, merchant_id) ==
    {Outcome(items, PurchaseLoop(purchase, clock, merchant_id, items, order), log, 200) :
        order \in Orderings(low_stock_items(items, merchant_id))}

\* POST /purchase-list/{item_id}/mark-purchased
mark_item_purchased(items, purchase, log, clock, merchant_id, item_id) ==
    IF item_id \in DOMAIN purchase /\ purchase[item_id].merchant_id = merchant_id
    THEN Outcome(items,
                 [purchase EXCEPT ![item_id] =
                     Updated(@, [@ EXCEPT !.is_purchased = TRUE], clock)],
                 log, 200)
    ELSE Outcome(items, purchase, log, 404)

\* everything outside the inventory
outside == <<store, guest_users, registry, nextHandle, now, tz, ret, pc, loc, market,
             http, users>>

\* the request's outcome becomes the state; the bounds keep the tables finite
Answer(handler, merchant_id, item_id, request, row, r) ==
    /\ Len(r.items) <= MaxItems
    /\ Len(r.purchase) <= MaxPurchaseRows
    /\ Len(r.log) <= MaxLogRows
    /\ \A i \in DOMAIN r.items : r.items[i].current_quantity <= MaxQuantity
    /\ inventory_items' = r.items
    /\ purchase_list_items' = r.purchase
    /\ inventory_transactions' = r.log
    /\ response' = InventoryResponse(handler, r.status, merchant_id, item_id, request,
                                     IF r.status = 200 THEN row ELSE None)

CreateItem(m, item) ==
    /\ Answer("create_inventory_item", m, None, item, None,
              create_inventory_item(inventory_items, purchase_list_items,
                                    inventory_transactions, m, item))
    /\ UNCHANGED outside

UpdateItem(m, item_id, update_data) ==
    /\ Answer("update_inventory_item", m, item_id, update_data, None,
              update_inventory_item(inventory_items, purchase_list_items,
                                    inventory_transactions, m, item_id, update_data))
    /\ UNCHANGED outside

DeleteItem(m, item_id) ==
    /\ Answer("delete_inventory_item", m, item_id, NoBody, None,
              delete_inventory_item(inventory_items, purchase_list_items,
                                    inventory_transactions, m, item_id))
    /\ UNCHANGED outside

UpdateQuantity(m, item_id, quantity_change) ==
    /\ Answer("update_quantity", m, item_id, [quantity_change |-> quantity_change], None,
              update_quantity(inventory_items, purchase_list_items,
                              inventory_transactions, m, item_id, quantity_change))
    /\ UNCHANGED outside

GetPurchaseList(m) ==
    \E r \in get_purchase_list(inventory_items, purchase_list_items,
                               inventory_transactions, now, m) :
        /\ Answer("get_purchase_list", m, None, NoBody, None, r)
        /\ UNCHANGED outside

\* the row add_to_purchase_list returns: the open row it found, else the new one
ReturnedRow(purchase, merchant_id, inventory_item_id) ==
    LET existing == OpenRows(purchase, merchant_id, inventory_item_id) IN
    IF existing # {} THEN Least(existing) ELSE Len(purchase) + 1

AddToPurchaseList(m, item_id, quantity_needed) ==
    /\ Answer("add_to_purchase_list", m, item_id, [quantity_needed |-> quantity_needed],
              ReturnedRow(purchase_list_items, m, item_id),
              add_to_purchase_list(inventory_items, purchase_list_items,
                                   inventory_transactions, now, m, item_id, quantity_needed))
    /\ UNCHANGED outside

MarkItemPurchased(m, item_id) ==
    /\ Answer("mark_item_purchased", m, item_id, NoBody, None,
              mark_item_purchased(inventory_items, purchase_list_items,
                                  inventory_transactions, now, m, item_id))
    /\ UNCHANGED outside

-----------------------------------------------------------------------------
(* The purchase list of two merchants *)

PurchaseItems == {InventoryItemCreate(NullText, 1, 1)}
PurchaseUpdates == {[current_quantity |-> 0], [is_active |-> FALSE]}
Needed == {3}

NextPurchase ==
    \/ \E item \in PurchaseItems :
          Len(inventory_items) < MaxListed /\ CreateItem(1, item)
    \/ \E i \in 1..MaxListed, u \in PurchaseUpdates : UpdateItem(1, i, u)
    \/ \E m \in Merchants, i \in 1..MaxListed : DeleteItem(m, i)
    \/ GetPurchaseList(1)
    \/ \E m \in Merchants, i \in 1..MaxListed, q \in Needed : AddToPurchaseList(m, i, q)
    \/ \E k \in 1..MaxPurchaseRows : MarkItemPurchased(1, k)

SpecPurchase == Init /\ [][NextPurchase]_vars

\* the ids of the unpurchased rows of item i of merchant m in purchase list pl
Unpurchased(pl, m, i) ==
    {k \in DOMAIN pl :
        pl[k].merchant_id = m /\ pl[k].inventory_item_id = i /\ ~pl[k].is_purchased}

AddedToOpenRow ==
    /\ response'.handler = "add_to_purchase_list"
    /\ response'.status = 200
    /\ Unpurchased(purchase_list_items, response'.merchant_id, response'.item_id) # {}

\* C22: after any sequence of add_to_purchase_list, get_purchase_list and
\* mark_item_purchased calls there is at most one unpurchased purchase-list row
\* per inventory item of a merchant, and add_to_purchase_list for an item that
\* already has an open row sets that row's quantity_needed to the requested
\* value and creates no second open row.
C22_OneOpenRowPerItem ==
    [][/\ \A m \in Merchants, i \in DOMAIN inventory_items' :
             Cardinality(Unpurchased(purchase_list_items', m, i)) <= 1
       /\ AddedToOpenRow =>
             LET open == Unpurchased(purchase_list_items, response'.merchant_id,
                                     response'.item_id) IN
             /\ Len(purchase_list_items') = Len(purchase_list_items)
             /\ Unpurchased(purchase_list_items', response'.merchant_id,
                            response'.item_id) = open
             /\ \A k \in open :
                   purchase_list_items'[k].quantity_needed
                       = response'.request.quantity_needed]_vars

\* the last request was an add_to_purchase_list whose row was written by an
\* UPDATE (an inserted row has no updated_at, and the other UPDATE of the table
\* closes the row); the row is the item's one open row and holds the requested
\* quantity, which get_purchase_list never writes
C22_Witness ==
    /\ response.handler = "add_to_purchase_list"
    /\ response.status = 200
    /\ purchase_list_items[response.row].updated_at # None
    /\ response.request.quantity_needed = 3
    /\ Unpurchased(purchase_list_items, response.merchant_id, response.item_id)
           = {response.row}
    /\ purchase_list_items[response.row].quantity_needed = 3

\* C30: every unpurchased purchase-list row has quantity_needed >= 1, whether
\* add_to_purchase_list wrote it or get_purchase_list derived it from a
\* low-stock item.
C30_OpenRowsNeedAtLeastOne ==
    \A k \in DOMAIN purchase_list_items :
        ~purchase_list_items[k].is_purchased => purchase_list_items[k].quantity_needed >= 1

-----------------------------------------------------------------------------
(* SKUs of two merchants *)

SkuItems ==
    {InventoryItemCreate("S1", 0, 1), InventoryItemCreate(NullText, 0, 1),
     InventoryItemCreate("", 0, 1)}
SkuUpdates == {[sku |-> "S1"], [sku |-> "S2"], [sku |-> ""]}

NextSku ==
    \/ \E m \in Merchants, item \in SkuItems : CreateItem(m, item)
    \/ \E m \in Merchants, i \in 1..MaxItems, u \in SkuUpdates : UpdateItem(m, i, u)

SpecSku == Init /\ [][NextSku]_vars

\* a create, or an update of an item of the caller, that carries a SKU
SkuStep ==
    /\ response'.handler \in {"create_inventory_item", "update_inventory_item"}
    /\ response'.request.sku # NullText
    /\ response'.handler = "update_inventory_item" =>
          ItemOf(inventory_items, response'.merchant_id, response'.item_id) # NoItem

\* another item of merchant m holds the SKU
HeldBySameMerchant(items, m, self, sku) ==
    \E i \in DOMAIN items : i # self /\ items[i].merchant_id = m /\ items[i].sku = sku

\* C23: SKU uniqueness is scoped to one merchant: create_inventory_item and
\* update_inventory_item refuse with a client error a SKU already used by
\* another item of the same merchant and leave the store unchanged, and they
\* accept a SKU that is used only by items of a different merchant.
C23_SkuUniquePerMerchant ==
    [][SkuStep =>
          IF HeldBySameMerchant(inventory_items, response'.merchant_id,
                                response'.item_id, response'.request.sku)
          THEN /\ response'.status = 400
               /\ inventory_items' = inventory_items
          ELSE /\ response'.status = 200
               /\ \E i \in DOMAIN inventory_items' :
                     /\ inventory_items'[i].merchant_id = response'.merchant_id
                     /\ inventory_items'[i].sku = response'.request.sku]_vars

-----------------------------------------------------------------------------
(* The stock of one merchant and its log *)

StockItems == {InventoryItemCreate(NullText, 0, 1), InventoryItemCreate(NullText, 2, 1)}
StockUpdates == {[current_quantity |-> 1]}
Changes == {-3, -1, 1}

NextStock ==
    \/ \E item \in StockItems :
          Len(inventory_items) < MaxListed /\ CreateItem(1, item)
    \/ \E i \in 1..MaxListed, u \in StockUpdates : UpdateItem(1, i, u)
    \/ \E m \in Merchants, i \in 1..MaxListed, c \in Changes : UpdateQuantity(m, i, c)

SpecStock == Init /\ [][NextStock]_vars

\* the log rows of one item, oldest first
LogOf(log, i) == SelectSeq(log, LAMBDA r : r.inventory_item_id = i)

\* the log accounts for the stock of every item
Faithful(items, log) ==
    \A i \in DOMAIN items :
        LET l == LogOf(log, i) IN
        /\ \A k \in DOMAIN l :
              /\ l[k].new_quantity = l[k].previous_quantity + l[k].quantity_change
              /\ l[k].new_quantity >= 0
              /\ l[k].previous_quantity = (IF k = 1 THEN 0 ELSE l[k - 1].new_quantity)
        /\ items[i].current_quantity = (IF l = <<>> THEN 0 ELSE l[Len(l)].new_quantity)

\* an update_quantity of an item of the caller that would make it negative
Overdrawn ==
    /\ response'.handler = "update_quantity"
    /\ LET item == ItemOf(inventory_items, response'.merchant_id, response'.item_id) IN
       /\ item # NoItem
       /\ item.current_quantity + response'.request.quantity_change < 0

\* C24: the inventory log is a faithful append-only ledger of stock: every row
\* has new_quantity = previous_quantity + quantity_change >= 0, no row is
\* modified or deleted, each row continues the item's preceding row, the
\* item's current_quantity is the new_quantity of its latest row, and an
\* update_quantity that would make the quantity negative is refused and
\* changes neither the item nor the log.
C24_LogIsFaithfulLedger ==
    [][/\ Faithful(inventory_items', inventory_transactions')
       /\ Len(inventory_transactions') >= Len(inventory_transactions)
       /\ SubSeq(inventory_transactions', 1, Len(inventory_transactions))
              = inventory_transactions
       /\ Overdrawn =>
             /\ response'.status = 400
             /\ inventory_items' = inventory_items
             /\ inventory_transactions' = inventory_transactions]_vars

-----------------------------------------------------------------------------
(* What a user and a merchant are shown of the ledger (api/v1/transactions.py *)
(* and api/v1/dashboard.py)                                                  *)

UserLimit == 50         \* default limit of the user-transaction routes
DashboardLimit == 1000  \* rows get_user_dashboard asks of each ledger
RecentLimit == 10       \* rows get_merchant_dashboard shows

\* _map_transaction_type_from_db
MapTypeFromDb(db_type) ==
    IF db_type = "PAYED" THEN "payed"
    ELSE IF db_type = "PAY_LATER" THEN "pending"
    ELSE "payed"

\* "if txn[1] == current_user.id"
Matches(current_user, txn) == txn.user_id = current_user

\* the dict get_user_transactions_with_merchant builds of a row
UserTransaction(txn) ==
    [transaction_id |-> txn.transaction_id, user_id |-> txn.user_id,
     timestamp |-> txn.timestamp, amount |-> txn.amount, type |-> MapTypeFromDb(txn.type),
     description |-> txn.description, payment_method |-> txn.payment_method,
     guest_user |-> txn.guest_user_id # None]

\* the dict get_user_transactions_by_merchant builds of a row
UserTransactionByMerchant(txn) ==
    [transaction_id |-> txn.transaction_id, amount |-> txn.amount,
     status |-> MapTypeFromDb(txn.type), payment_method |-> txn.payment_method,
     description |-> txn.description, datetime |-> txn.timestamp]

Dicts(rows, Make(_)) == [i \in 1..Len(rows) |-> Make(rows[i])]

\* GET /transactions/user-transactions/{merchant_id}
get_user_transactions_with_merchant(reg, st, merchant_id, current_user, limit, offset) ==
    {Dicts(SelectSeq(transactions, LAMBDA txn : Matches(current_user, txn)),
           UserTransaction) :
        transactions \in get_merchant_transactions(reg, st, merchant_id, limit, offset)}

\* GET /dashboard/user/transactions/{merchant_id}: a merchant_id without a row
\* in merchants is answered with 404; else limit + offset rows are read,
\* filtered, and then cut to the page
get_user_transactions_by_merchant(reg, st, merchant_id, current_user, limit, offset) ==
    IF merchant_id \notin Merchants
    THEN {[status |-> 404, rows |-> <<>>]}
    ELSE {[status |-> 200,
           rows |-> Page(Dicts(SelectSeq(merchant_transactions,
                                         LAMBDA txn : Matches(current_user, txn)),
                               UserTransactionByMerchant),
                         limit, offset)] :
            merchant_transactions \in
                get_merchant_transactions(reg, st, merchant_id, limit + offset, 0)}

\* the rows of one merchant that get_user_dashboard adds up, in the order in
\* which it was given them
CountedRows(merchant_transactions, current_user) ==
    SelectSeq(merchant_transactions, LAMBDA txn : Matches(current_user, txn))

RECURSIVE SumOver(_, _)
\* the sum of f over S
SumOver(S, f) ==
    IF S = {} THEN 0
    ELSE LET x == CHOOSE y \in S : TRUE IN f[x] + SumOver(S \ {x}, f)

\* "total_spent = 0.0, total_pending = 0.0, merchants_count = 0"
NoExpenses == [total_spent |-> Literal(0), total_pending |-> Literal(0), merchants_count |-> 0]

RECURSIVE AddAmounts(_, _)
\* the inner loop: "amount = float(txn[3])", then "total_spent += amount" for
\* a PAYED row and "total_pending += amount" for any other, as floats add
AddAmounts(totals, rows) ==
    IF rows = <<>> THEN totals
    ELSE AddAmounts(IF Head(rows).type = PAYED
                    THEN [totals EXCEPT !.total_spent = FloatPlus(@, Literal(Head(rows).amount))]
                    ELSE [totals EXCEPT !.total_pending = FloatPlus(@, Literal(Head(rows).amount))],
                    Tail(rows))

\* "if has_transactions: merchants_count += 1"
CountMerchant(totals, rows) ==
    IF rows = <<>> THEN totals ELSE [totals EXCEPT !.merchants_count = @ + 1]

RECURSIVE MerchantLoop(_, _, _, _)
\* "for merchant in merchants", reads[m] being what get_merchant_transactions
\* gave for merchant m
MerchantLoop(totals, merchants, reads, current_user) ==
    IF merchants = <<>> THEN totals
    ELSE MerchantLoop(CountMerchant(AddAmounts(totals, CountedRows(reads[Head(merchants)],
                                                                  current_user)),
                                    CountedRows(reads[Head(merchants)], current_user)),
                      Tail(merchants), reads, current_user)

\* what get_merchant_transactions may give get_user_dashboard for each merchant
DashboardReads(reg, st) ==
    {reads \in [Merchants -> UNION {get_merchant_transactions(reg, st, m, DashboardLimit, 0) :
                                       m \in Merchants}] :
        \A m \in Merchants :
           reads[m] \in get_merchant_transactions(reg, st, m, DashboardLimit, 0)}

\* GET /dashboard/user: the totals it may answer.  The totals are Python
\* floats added up row by row, so they depend on the order in which
\* "db.query(Merchant).all()" gives the merchants and the ledger gives rows of
\* one timestamp.  The weekly_expenses and monthly_expenses lists of the
\* response, which go by the calendar date, are left out.
get_user_dashboard(reg, st, current_user) ==
    {MerchantLoop(NoExpenses, merchants, reads, current_user) :
        merchants \in Orders(Merchants), reads \in DashboardReads(reg, st)}

\* one entry of recent_transactions: user_details stands for the name, phone
\* and email of the users row whose id it is
RecentTransaction(us, txn) ==
    [transaction_id |-> txn.transaction_id, user_id |-> txn.user_id,
     timestamp |-> txn.timestamp, amount |-> txn.amount, type |-> MapTypeFromDb(txn.type),
     description |-> txn.description, payment_method |-> txn.payment_method,
     guest_user |-> txn.guest_user_id,
     user_details |-> IF txn.user_id # None /\ txn.user_id \in us
                      THEN txn.user_id ELSE None]

\* GET /dashboard/merchant: the recent_transactions it may show
get_merchant_dashboard(reg, st, us, clock, offset_tz, merchant_id, days) ==
    {[i \in 1..Len(raw) |-> RecentTransaction(us, raw[i])] :
        raw \in get_merchant_transactions_by_period(reg, st, clock, offset_tz, merchant_id,
                                                    days, RecentLimit, 0)}

ledger == <<store, guest_users, registry, nextHandle, now, tz, tables, market, http,
            pc, loc>>

ShownRet(op, p, m, u, limit, rows, stats) ==
    MkRet(op, p, m, NoArgs, [days |-> 0, limit |-> limit, offset |-> 0], FALSE, None,
          None, u, rows, stats)

UserTransactionsWithMerchant(p, m, u) ==
    /\ Idle(p) /\ u \in users
    /\ \E rows \in get_user_transactions_with_merchant(registry[p], store, m, u,
                                                       UserLimit, 0) :
          ret' = ShownRet("user_transactions_with_merchant", p, m, u, UserLimit, rows,
                          ZeroAnalytics)
    /\ UNCHANGED ledger

UserTransactionsByMerchant(p, m, u) ==
    /\ Idle(p) /\ u \in users
    /\ \E r \in get_user_transactions_by_merchant(registry[p], store, m, u,
                                                  UserLimit, 0) :
          /\ ret' = [ShownRet("user_transactions_by_merchant", p, m, u, UserLimit,
                              r.rows, ZeroAnalytics) EXCEPT !.raised = r.status # 200]
          /\ http' = HttpResponse("get_user_transactions_by_merchant", r.status,
                                  NoRequest, <<>>, Literal(0), 0, m)
    /\ UNCHANGED <<store, guest_users, registry, nextHandle, now, tz, tables, market,
                   pc, loc>>

UserDashboard(p, u) ==
    /\ Idle(p) /\ u \in users
    /\ \E stats \in get_user_dashboard(registry[p], store, u) :
          ret' = ShownRet("user_dashboard", p, None, u, DashboardLimit, <<>>, stats)
    /\ UNCHANGED ledger

MerchantDashboard(p, m) ==
    /\ Idle(p)
    /\ \E rows \in get_merchant_dashboard(registry[p], store, users, now, tz, m,
                                          DefaultDays) :
          ret' = ShownRet("merchant_dashboard", p, m, None, RecentLimit, rows,
                          get_merchant_transaction_analytics(registry[p], store, now, m,
                                                             DefaultDays))
    /\ UNCHANGED ledger

\* a purchase of registered user 1, and a guest purchase
ShownArgs ==
    {Args(1, Literal(100), PAYED, NullText, NullText, None, FALSE),
     Args(None, Literal(200), PAYED, NullText, NullText, None, TRUE)}

\* the ledgers written to: those of the merchants, and by user 1 the ledger of
\* an id that has no row in merchants
ShownWrites ==
    (Merchants \X ShownArgs)
        \cup {<<UnknownMerchant, a>> : a \in {b \in ShownArgs : ~b.is_guest_transaction}}

NextShown ==
    \/ \E w \in ShownWrites : InsertTransaction("A", w[1], w[2])
    \/ \E m \in Merchants, u \in Users : UserTransactionsWithMerchant("A", m, u)
    \/ \E m \in Merchants \cup {UnknownMerchant}, u \in Users :
          UserTransactionsByMerchant("A", m, u)
    \/ \E u \in Users : UserDashboard("A", u)
    \/ \E m \in Merchants : MerchantDashboard("A", m)

SpecShown == Init /\ [][NextShown]_vars

\* the rows of merchant m inserted with user u as a non-guest user_id
OwnRows(st, m, u) ==
    SelectSeq(RowsOf(st, m), LAMBDA r : r.user_id = u /\ ~r.by_guest_insert)

OwnTotal(st, u) ==
    SumOver(Merchants, [m \in Merchants |-> SumAmount(OwnRows(st, m, u))])

\* the user dashboard has added 0.10 and 0.20 and answered
\* 0.30000000000000004
InexactTotal ==
    ret.op = "user_dashboard" /\ ret.stats.total_spent = Float(300, 1)

\* C25: a ledger row inserted as a guest transaction is never attributed to a
\* registered user, even when the guest identity's id equals the user's id:
\* the user-transaction routes and the user dashboard of user U return and
\* count only rows inserted with U as a non-guest user_id, and the merchant
\* dashboard attaches no registered user's details to a row whose
\* guest_user_id is set.
C25_GuestRowsNotAttributed ==
    [][/\ ret'.op \in {"user_transactions_with_merchant", "user_transactions_by_merchant"}
            => \A d \in Range(ret'.rows) :
                  \E r \in Range(OwnRows(store, ret'.merchant_id, ret'.user_id)) :
                      r.transaction_id = d.transaction_id
       /\ ret'.op = "user_dashboard"
            => /\ ret'.stats.total_spent.near + ret'.stats.total_pending.near
                     = OwnTotal(store, ret'.user_id)
               /\ ret'.stats.merchants_count
                     = Cardinality({m \in Merchants :
                                       OwnRows(store, m, ret'.user_id) # <<>>})
       /\ ret'.op = "merchant_dashboard"
            => \A d \in Range(ret'.rows) :
                  d.guest_user # None => d.user_details = None]_vars

====
